---- MODULE Spec2Model ----
(***************************************************************************)
(* Model of the network subsystem of RSS-to-Telegram-Bot:                  *)
(*   - src/parsing/tgraph.py : Telegraph accounts (pacing, flood control), *)
(*     the account pool APIs, and TelegraphIfy.telegraph_ify (publish);    *)
(*   - src/web.py            : the fetch engine _get / get.                *)
(*                                                                         *)
(* Every coroutine is a task of one asyncio event loop.  An action of the  *)
(* model is one run of a task from one suspension point to the next, which *)
(* asyncio executes without interleaving.  Time is discrete; it advances   *)
(* only when no task is ready to run.                                      *)
(***************************************************************************)
EXTENDS Integers, Sequences, FiniteSets, Bags, TLC

(***************************************************************************)
(* Bounds of the model                                                     *)
(***************************************************************************)
MaxCalls == 2          \* concurrent publish calls (TelegraphIfy objects)
MaxPool == 2           \* largest account pool
MaxSmallWait == 0      \* flood-wait signals 0..MaxSmallWait, plus the ones next to the threshold
MaxAttempts == 4       \* cap of the create-page invocations counted per publish call
MaxFetches == 1        \* concurrent fetch calls that are followed step by step
MaxHosts == 2          \* distinct hosts the fetches go to
OverallLimit == 2      \* permits of locks.overall_web_semaphore
HostLimit == 1         \* permits of each locks.hostname_semaphore(host)
FetchTimeout == 1      \* the timeout argument of get, in seconds
MaxAge == 59           \* seconds a call without any deadline is followed for
MaxBody == 2           \* longest body of a response, in bytes
MaxCap == 1            \* largest max_size of get
MaxProbes == 4         \* calls of get_medium_info
MaxUrls == 3           \* distinct http urls probed
CacheSize == 2         \* maxsize of the lru_cache, scaled down from 512
MaxEntries == 4        \* producer calls on the dispatcher
MaxQueue == 2          \* the bound of a bounded queue
MaxInits == 2          \* init_sync calls
MaxCloses == 2         \* close_sync calls
MaxPieces == 6         \* markers and other bytes a stream is made of
ChunkLen == 4          \* iter_length, 128 in the program
MaxRead == 16          \* max_read_length of a body longer than the streams
ImageWidth == 3        \* the size PIL reads from a picture it can open
ImageHeight == 2

(***************************************************************************)
(* Program constants                                                       *)
(***************************************************************************)
TicksPerSecond == 2    \* one tick is the 0.5 s of the pacing rule
PacingTicks == 1       \* 0.5 s between two requests of one account
ReplaceThreshold == 60 \* "if retry_after >= 60" of flood_wait
RetryLimit == 3        \* "if self.retries >= 3" of telegraph_ify
DnsTimeout == 1        \* wait_for(_resolver.query(host, 'AAAA'), timeout=1)
RetryAttempts == 2     \* ExponentialRetry(attempts=2, ...)
RetryStartTimeout == 1 \* ExponentialRetry(..., start_timeout=1, ...)
MaxTries == 2          \* assert tries <= 2, 'Too many tries'
DeadlineExtra == 5     \* wait_for_timeout = (timeout * 2 + 5) * ...

\* "pointer + 9 <= len(file_header)", file_header[pointer + 5:pointer + 7]
\* and file_header[pointer + 7:pointer + 9]
MarkerSpan == 9
HeightOffset == 5
WidthOffset == 7

Calls == 1..MaxCalls
Slots == 0..(MaxPool - 1)

\* the flood-wait values N the remote side may signal (FLOOD_WAIT_N)
FloodSignals == (0..MaxSmallWait) \cup {ReplaceThreshold - 1, ReplaceThreshold}

Outcomes == {"ok", "telegraph_error", "timeout", "network"}

VARIABLES
    (* ---- APIs (account pool) ---- *)
    pool_size,      \* len(self._accounts)
    curr_id,        \* self._curr_id
    turn,           \* history: the number of get_account calls, modulo the pool size
    got,            \* history: the account the latest get_account returned, or -1
    (* ---- Telegraph (one per pool slot) ---- *)
    fc_lock,        \* self._fc_lock : [locked, waiters]
    request_lock,   \* self._request_lock : [locked, waiters]
    last_run_age,   \* time.time() - self.last_run, in ticks, capped at PacingTicks
    flood,          \* the flood_wait coroutine holding the gate of the slot
    replaced,       \* flood_wait has created a new account for the slot
    (* ---- TelegraphIfy (one per publish call) ---- *)
    pc,             \* where the innermost telegraph_ify frame of the call is
    account,        \* telegraph_account of the innermost frame (a slot)
    retries,        \* self.retries
    sleep_left,     \* ticks left of the pacing sleep
    signal,         \* retry_after of the flood_wait the frame is about to start
    result,         \* what the outermost telegraph_ify gave its caller
    (* ---- history variables ---- *)
    attempts,       \* number of create-page invocations of the call
    page_created,   \* some attempt of the call created the remote page
    since_request,  \* ticks since the previous request of the slot was sent, capped
    (* ---- environment of the fetch engine ---- *)
    IPV6_PRIOR,     \* env.IPV6_PRIOR
    v4_only,        \* the hosts that are reachable over IPv4 only
    overall_web_semaphore,  \* free permits of locks.overall_web_semaphore
    hostname_semaphore,     \* free permits of locks.hostname_semaphore(host)
    others,         \* hosts of the connection attempts of the other fetch calls
    (* ---- one get() call, with the _get() it wraps ---- *)
    entry,          \* the function the caller called: "get" or "get_medium_info"
    fpc,            \* where the call is
    host,           \* urlparse(url).hostname
    socket_family,  \* socket_family of _get
    tries,          \* tries of _get
    retry_in_v4_flag,  \* retry_in_v4_flag of _get
    current_attempt,   \* the attempt of RetryClient the call is in
    ftimer,         \* seconds the call has spent in its present wait
    age,            \* seconds since get() was called
    fresult,        \* what get() gave its caller
    (* ---- history variable ---- *)
    attempt_log,    \* family and outcome of the connection attempts of the call
    (* ---- one call of get() or feed_get(), from its response on ---- *)
    rpc,            \* where the call is
    caller,         \* the function the caller called: "get" or "feed_get"
    decode,         \* decode of get
    max_size,       \* max_size of get: <<>> is None
    intended_content_type,  \* intended_content_type of get: <<>> is None
    web,            \* what get() gave: a WebResponse or an exception
    ret,            \* the WebFeed of feed_get
    (* ---- get_medium_info and its cache ---- *)
    cache,          \* the keys of the lru_cache, the least recently used first
    probe_pc,       \* where each call of get_medium_info is
    probe_url,      \* url of each call
    (* ---- history variables ---- *)
    network_calls,  \* number of fetches started for each url
    evicted,        \* the urls that have been dropped from the cache
    (* ---- QueuedHelper ---- *)
    queue,          \* the items of self._queue, the oldest first
    maxsize,        \* maxsize of the queue; 0 is no bound
    putters,        \* the entries whose queue.put waits for room, in order
    woken,          \* the entries whose queue.put has been woken and has not run
    consumer,       \* self._consumer_task: none, ready, waiting, stopped, cancelled
    must_cancel,    \* cancel() has been called on the consumer task
    next_entry,     \* the entry the next producer call carries
    inits,          \* number of init_sync calls
    closes,         \* number of close_sync calls
    alive,          \* number of consumer tasks that have not ended
    task,           \* per entry, the task spawned for it: none, running, returned, failed
    closer,         \* the caller of close(): idle, awaiting, woken, woken_cancelled,
                    \* returned, raised
    (* ---- history variables ---- *)
    enqueued,       \* the entries put into a queue, in the order of their put
    spawned,        \* the entries a task was created for, in order
    abandoned,      \* the entries that were queued when the consumer was cancelled
    raised,         \* the entries whose func(*args, **kwargs) raised in the consumer
    gen_start,      \* Len(enqueued) when the present queue was made
    (* ---- get_page_title ---- *)
    title_called,   \* get_page_title has been called
    title_args,     \* what the latest call was given and met
    title_ret,      \* what the latest call gave its caller
    (* ---- __medium_info_callback ---- *)
    medium_pc,      \* idle, reading, done
    stream,         \* the bytes of the body that have not been read
    buffer,         \* buffer.getvalue()
    is_jpeg,        \* content_type.startswith('image/jpeg')
    max_read_length, \* min(content_length, 5 * 1024)
    decoded,        \* what PIL did with the buffer in the latest round
    medium_ret      \* what the callback returns

pvars == <<pool_size, curr_id, turn, got, fc_lock, request_lock, last_run_age, flood, replaced,
           pc, account, retries, sleep_left, signal, result,
           attempts, page_created, since_request>>

fvars == <<IPV6_PRIOR, v4_only, overall_web_semaphore, hostname_semaphore, others,
           entry, fpc, host,
           socket_family, tries, retry_in_v4_flag, current_attempt, ftimer, age,
           fresult, attempt_log>>

rvars == <<rpc, caller, decode, max_size, intended_content_type, web, ret>>

mvars == <<cache, probe_pc, probe_url, network_calls, evicted>>

qvars == <<queue, maxsize, putters, woken, consumer, must_cancel, next_entry,
           inits, closes, alive, task, closer, enqueued, spawned, abandoned,
           raised, gen_start>>

tvars == <<title_called, title_args, title_ret>>
jvars == <<medium_pc, stream, buffer, is_jpeg, max_read_length, decoded, medium_ret>>

\* the variables of the other parts of the process
besidesPublish == <<fvars, rvars, mvars, qvars, tvars, jvars>>
besidesFetch == <<pvars, rvars, mvars, qvars, tvars, jvars>>
besidesRespond == <<pvars, fvars, mvars, qvars, tvars, jvars>>
besidesProbe == <<pvars, fvars, rvars, qvars, tvars, jvars>>
besidesDispatch == <<pvars, fvars, rvars, mvars, tvars, jvars>>
besidesTitle == <<pvars, fvars, rvars, mvars, qvars, jvars>>
besidesMedium == <<pvars, fvars, rvars, mvars, qvars, tvars>>

vars == <<pvars, fvars, rvars, mvars, qvars, tvars, jvars>>

(***************************************************************************)
(* Helpers                                                                 *)
(***************************************************************************)
Max(x, y) == IF x >= y THEN x ELSE y
Min(x, y) == IF x <= y THEN x ELSE y

Pool == 0..(pool_size - 1)

\* asyncio.Lock: locked flag and FIFO queue of waiters.  When the lock is
\* unlocked and the queue is not empty, the head waiter has been woken up
\* and takes the lock when its task runs next.
NewLock == [locked |-> FALSE, waiters |-> <<>>]

\* a lock that excludes nobody, against which C6 is tested
LockNeverBusy(l) == TRUE

\* Lock.acquire() returns at once, without suspending
LockFree(l) == ~l.locked /\ l.waiters = <<>>

\* Lock.locked()
Locked(l) == l.locked

\* Lock.release(): the head waiter, if any, is woken up
Release(l) == [l EXCEPT !.locked = FALSE]

\* the head waiter of an unlocked lock resumes
Woken(l) == ~l.locked /\ l.waiters # <<>>

NoFlood == [mode |-> "none", owner |-> 0, n |-> 0, left |-> 0, held |-> 0]

(***************************************************************************)
(* APIs.get_account                                                        *)
(***************************************************************************)
\* self._curr_id and what is recorded of the calls of get_account
cursor == <<curr_id, turn, got>>

\* a get_account that returns the last account of the pool, against which C24
\* is tested
CurrAccountLast == pool_size - 1

\* curr_id = self._curr_id if 0 <= self._curr_id < len(self._accounts) else 0
CurrAccount == IF 0 <= curr_id /\ curr_id < pool_size THEN curr_id ELSE 0

\* a cursor that does not wrap, against which C23 is tested
CursorRunsOn == CurrAccount + 1

\* self._curr_id = curr_id + 1 if 0 <= curr_id + 1 < len(self._accounts) else 0
NextCurrId == IF 0 <= CurrAccount + 1 /\ CurrAccount + 1 < pool_size
              THEN CurrAccount + 1 ELSE 0

(***************************************************************************)
(* Telegraph.create_page                                                   *)
(***************************************************************************)
\* asyncio.sleep(max(0.5 - (time.time() - self.last_run), 0))
PacingSleep(elapsed) == Max(PacingTicks - elapsed, 0)

\* create_page without "async with self._fc_lock: pass", against which C3 is tested
GateIgnored(l) == TRUE

\* "async with self._fc_lock: pass" goes through without suspending
GateOpen(l) == LockFree(l)

\* "async with self._request_lock": the task takes the lock and starts the
\* pacing sleep, or queues on the lock.  rl is request_lock as the step has
\* left it so far.
RequestStep(c, a, rl) ==
    IF LockFree(rl[a])
    THEN /\ request_lock' = [rl EXCEPT ![a].locked = TRUE]
         /\ pc' = [pc EXCEPT ![c] = "sleep"]
         /\ sleep_left' = [sleep_left EXCEPT ![c] = PacingSleep(last_run_age[a])]
    ELSE /\ request_lock' = [rl EXCEPT ![a].waiters = Append(@, c)]
         /\ pc' = [pc EXCEPT ![c] = "waitLock"]
         /\ UNCHANGED sleep_left

(***************************************************************************)
(* TelegraphIfy.telegraph_ify, from its entry to the first suspension of   *)
(* create_page.  rl is request_lock as the step has left it so far.        *)
(***************************************************************************)
Enter(c, rl) ==
    IF retries[c] >= RetryLimit
    THEN \* raise OverflowError
         /\ pc' = [pc EXCEPT ![c] = "done"]
         /\ result' = [result EXCEPT ![c] = "error"]
         /\ request_lock' = rl
         /\ UNCHANGED <<cursor, account, fc_lock, sleep_left>>
    ELSE LET a == CurrAccount IN
         /\ curr_id' = NextCurrId
         /\ turn' = (turn + 1) % pool_size
         /\ got' = a
         /\ account' = [account EXCEPT ![c] = a]
         /\ UNCHANGED result
         /\ IF GateOpen(fc_lock[a])
            THEN /\ RequestStep(c, a, rl)
                 /\ UNCHANGED fc_lock
            ELSE /\ fc_lock' = [fc_lock EXCEPT ![a].waiters =
                                   Append(@, [kind |-> "page", call |-> c, n |-> 0])]
                 /\ pc' = [pc EXCEPT ![c] = "waitGate"]
                 /\ request_lock' = rl
                 /\ UNCHANGED sleep_left

\* the caller invokes telegraph_ify of a TelegraphIfy object
Publish(c) ==
    /\ pc[c] = "idle"
    /\ Enter(c, request_lock)
    /\ UNCHANGED <<pool_size, last_run_age, flood, replaced, retries, signal,
                   attempts, page_created, since_request>>

\* the task of the recursive telegraph_ify() that asyncio.gather started runs
Retry(c) ==
    /\ pc[c] = "start"
    /\ Enter(c, request_lock)
    /\ UNCHANGED <<pool_size, last_run_age, flood, replaced, retries, signal,
                   attempts, page_created, since_request>>

\* a task queued on the gate is woken: a create_page goes through the gate
\* ("async with self._fc_lock: pass") and on to the request lock
GateWakePage(a) ==
    /\ a \in Pool
    /\ Woken(fc_lock[a])
    /\ Head(fc_lock[a].waiters).kind = "page"
    /\ LET c == Head(fc_lock[a].waiters).call IN
       /\ fc_lock' = [fc_lock EXCEPT ![a].waiters = Tail(@)]
       /\ RequestStep(c, a, request_lock)
    /\ UNCHANGED <<pool_size, cursor, last_run_age, flood, replaced, account,
                   retries, signal, result, attempts, page_created, since_request>>

\* a task queued on the request lock is woken and starts its pacing sleep
LockWake(a) ==
    /\ a \in Pool
    /\ Woken(request_lock[a])
    /\ LET c == Head(request_lock[a].waiters) IN
       /\ request_lock' = [request_lock EXCEPT ![a] =
                              [locked |-> TRUE, waiters |-> Tail(@.waiters)]]
       /\ pc' = [pc EXCEPT ![c] = "sleep"]
       /\ sleep_left' = [sleep_left EXCEPT ![c] = PacingSleep(last_run_age[a])]
    /\ UNCHANGED <<pool_size, cursor, fc_lock, last_run_age, flood, replaced,
                   account, retries, signal, result, attempts, page_created, since_request>>

\* the pacing sleep is over: super().create_page sends the request
Send(c) ==
    /\ pc[c] = "sleep"
    /\ sleep_left[c] = 0
    /\ pc' = [pc EXCEPT ![c] = "inflight"]
    /\ attempts' = [attempts EXCEPT ![c] = @ + 1]
    /\ since_request' = [since_request EXCEPT ![account[c]] = 0]
    /\ UNCHANGED <<pool_size, cursor, fc_lock, request_lock, last_run_age, flood,
                   replaced, account, retries, sleep_left, signal, result,
                   page_created>>

(***************************************************************************)
(* The answers of the remote side to a create-page request                 *)
(***************************************************************************)
\* the page comes back: self.last_run = time.time(); return page, and
\* telegraph_ify returns telegraph_page.url to the frame that awaits it
ResponseOk(c) ==
    /\ pc[c] = "inflight"
    /\ LET a == account[c] IN
       /\ last_run_age' = [last_run_age EXCEPT ![a] = 0]
       /\ request_lock' = [request_lock EXCEPT ![a] = Release(@)]
    /\ page_created' = [page_created EXCEPT ![c] = TRUE]
    /\ IF retries[c] = 0
       THEN \* no frame of the call went through asyncio.gather
            /\ pc' = [pc EXCEPT ![c] = "done"]
            /\ result' = [result EXCEPT ![c] = "url"]
       ELSE /\ pc' = [pc EXCEPT ![c] = "returned"]
            /\ UNCHANGED result
    /\ UNCHANGED <<pool_size, cursor, fc_lock, flood, replaced, account, retries,
                   sleep_left, signal, attempts, since_request>>

\* TelegraphError other than FLOOD_WAIT_ ("raise e"), or
\* TimeoutError / asyncio.TimeoutError ("raise e")
ResponseRaise(c, o) ==
    /\ pc[c] = "inflight"
    /\ o \in {"telegraph_error", "timeout"}
    /\ request_lock' = [request_lock EXCEPT ![account[c]] = Release(@)]
    /\ pc' = [pc EXCEPT ![c] = "done"]
    /\ result' = [result EXCEPT ![c] = "error"]
    /\ UNCHANGED <<pool_size, cursor, fc_lock, last_run_age, flood, replaced,
                   account, retries, sleep_left, signal, attempts, page_created, since_request>>

\* the guard of the retry after ClientError / ConnectionError
MayRetry(r) == r < RetryLimit

\* ClientError / ConnectionError: "if self.retries < 3: return await
\* self.telegraph_ify()", the recursion runs in the same task
ResponseNetwork(c) ==
    /\ pc[c] = "inflight"
    /\ attempts[c] < MaxAttempts
    /\ IF MayRetry(retries[c])
       THEN Enter(c, [request_lock EXCEPT ![account[c]] = Release(@)])
       ELSE /\ request_lock' = [request_lock EXCEPT ![account[c]] = Release(@)]
            /\ pc' = [pc EXCEPT ![c] = "done"]
            /\ result' = [result EXCEPT ![c] = "error"]
            /\ UNCHANGED <<cursor, account, fc_lock, sleep_left>>
    /\ UNCHANGED <<pool_size, last_run_age, flood, replaced, retries, signal,
                   attempts, page_created, since_request>>

\* TelegraphError FLOOD_WAIT_N: self.retries += 1, then asyncio.gather starts
\* the tasks of flood_wait(N) and of telegraph_ify(), in this order
ResponseFlood(c, n) ==
    /\ pc[c] = "inflight"
    /\ attempts[c] < MaxAttempts
    /\ n \in FloodSignals
    /\ request_lock' = [request_lock EXCEPT ![account[c]] = Release(@)]
    /\ retries' = [retries EXCEPT ![c] = @ + 1]
    /\ signal' = [signal EXCEPT ![c] = n]
    /\ pc' = [pc EXCEPT ![c] = "gather"]
    /\ UNCHANGED <<pool_size, cursor, fc_lock, last_run_age, flood, replaced,
                   account, sleep_left, result, attempts, page_created, since_request>>

(***************************************************************************)
(* Telegraph.flood_wait                                                    *)
(***************************************************************************)
\* retry_after += 1
RetryAfter(n) == n + 1

\* if retry_after >= 60: create a new account, else: sleep
Replaces(retry_after) == retry_after >= ReplaceThreshold

\* the sleep without the extra second of "retry_after += 1", against which C4 is tested
FloodSleepShort(retry_after) == TicksPerSecond * (retry_after - 1)

\* await asyncio.sleep(retry_after), in ticks
FloodSleep(retry_after) == TicksPerSecond * retry_after

\* flood_wait holds the gate: it creates an account or sleeps
HoldGate(c, n) ==
    IF Replaces(RetryAfter(n))
    THEN [mode |-> "create", owner |-> c, n |-> n, left |-> 0, held |-> 0]
    ELSE [mode |-> "sleep", owner |-> c, n |-> n,
          left |-> FloodSleep(RetryAfter(n)), held |-> 0]

\* "if not self._fc_lock.locked()": flood_wait does something
FloodActs(l) == ~Locked(l)

\* the task of flood_wait(N) runs, then the task of telegraph_ify() is next
FloodWait(c) ==
    /\ pc[c] = "gather"
    /\ LET a == account[c]
           n == signal[c]
       IN IF FloodActs(fc_lock[a])
          THEN /\ IF LockFree(fc_lock[a])
                  THEN /\ fc_lock' = [fc_lock EXCEPT ![a].locked = TRUE]
                       /\ flood' = [flood EXCEPT ![a] = HoldGate(c, n)]
                  ELSE /\ fc_lock' = [fc_lock EXCEPT ![a].waiters =
                                         Append(@, [kind |-> "flood", call |-> c, n |-> n])]
                       /\ UNCHANGED flood
          ELSE UNCHANGED <<fc_lock, flood>>
    /\ pc' = [pc EXCEPT ![c] = "start"]
    /\ signal' = [signal EXCEPT ![c] = 0]
    /\ UNCHANGED <<pool_size, cursor, request_lock, last_run_age, replaced,
                   account, retries, sleep_left, result, attempts,
                   page_created, since_request>>

\* a flood_wait queued on the gate is woken and takes it
GateWakeFlood(a) ==
    /\ a \in Pool
    /\ Woken(fc_lock[a])
    /\ Head(fc_lock[a].waiters).kind = "flood"
    /\ LET w == Head(fc_lock[a].waiters) IN
       /\ fc_lock' = [fc_lock EXCEPT ![a] = [locked |-> TRUE, waiters |-> Tail(@.waiters)]]
       /\ flood' = [flood EXCEPT ![a] = HoldGate(w.call, w.n)]
    /\ UNCHANGED <<pool_size, cursor, request_lock, last_run_age, replaced, pc,
                   account, retries, sleep_left, signal, result, attempts,
                   page_created, since_request>>

\* the sleep of flood_wait is over: "Unblocked.", the gate is released
FloodWaitEnd(a) ==
    /\ a \in Pool
    /\ flood[a].mode = "sleep"
    /\ flood[a].left = 0
    /\ fc_lock' = [fc_lock EXCEPT ![a] = Release(@)]
    /\ flood' = [flood EXCEPT ![a] = NoFlood]
    /\ UNCHANGED <<pool_size, cursor, request_lock, last_run_age, replaced, pc,
                   account, retries, sleep_left, signal, result, attempts,
                   page_created, since_request>>

\* create_account answers with the new account (the request is taken to
\* succeed): the slot has a new token, "Unblocked.", the gate is released
CreateAccount(a) ==
    /\ a \in Pool
    /\ flood[a].mode = "create"
    /\ fc_lock' = [fc_lock EXCEPT ![a] = Release(@)]
    /\ flood' = [flood EXCEPT ![a] = NoFlood]
    /\ replaced' = [replaced EXCEPT ![a] = TRUE]
    /\ UNCHANGED <<pool_size, cursor, request_lock, last_run_age, pc, account,
                   retries, sleep_left, signal, result, attempts, page_created,
                   since_request>>

\* the flood_wait coroutines of call c that have not returned
PendingFloods(c) ==
    {a \in Pool : \/ flood[a].mode # "none" /\ flood[a].owner = c
                  \/ \E i \in 1..Len(fc_lock[a].waiters) :
                        /\ fc_lock[a].waiters[i].kind = "flood"
                        /\ fc_lock[a].waiters[i].call = c}

\* what "return rets[0]" gives: the result of flood_wait
GatherResult == "none"

\* every asyncio.gather of the call has its two results: "return rets[0]"
Finish(c) ==
    /\ pc[c] = "returned"
    /\ PendingFloods(c) = {}
    /\ pc' = [pc EXCEPT ![c] = "done"]
    /\ result' = [result EXCEPT ![c] = GatherResult]
    /\ UNCHANGED <<pool_size, cursor, fc_lock, request_lock, last_run_age, flood,
                   replaced, account, retries, sleep_left, signal, attempts,
                   page_created, since_request>>

(***************************************************************************)
(* Time                                                                    *)
(***************************************************************************)
\* some task of the event loop is ready to run
PublishReady ==
    \/ \E c \in Calls : \/ pc[c] \in {"start", "gather"}
                        \/ pc[c] = "sleep" /\ sleep_left[c] = 0
                        \/ pc[c] = "returned" /\ PendingFloods(c) = {}
    \/ \E a \in Pool : \/ Woken(fc_lock[a])
                       \/ Woken(request_lock[a])
                       \/ flood[a].mode = "sleep" /\ flood[a].left = 0

\* half a second passes while every task is suspended
TickPublish ==
    /\ ~PublishReady
    /\ sleep_left' = [c \in Calls |-> IF pc[c] = "sleep" THEN sleep_left[c] - 1
                                      ELSE sleep_left[c]]
    /\ flood' = [a \in Slots |-> IF flood[a].mode = "sleep"
                                 THEN [flood[a] EXCEPT !.left = @ - 1, !.held = @ + 1]
                                 ELSE flood[a]]
    /\ last_run_age' = [a \in Slots |-> Min(last_run_age[a] + 1, PacingTicks)]
    /\ since_request' = [a \in Slots |-> Min(since_request[a] + 1, PacingTicks)]
    /\ UNCHANGED <<pool_size, cursor, fc_lock, request_lock, replaced, pc,
                   account, retries, signal, result, attempts, page_created>>

(***************************************************************************)
(* Specification of the publishing client                                  *)
(***************************************************************************)
InitPublish ==
    /\ pool_size \in 1..MaxPool
    /\ curr_id = 0
    /\ turn = 0
    /\ got = -1
    /\ fc_lock = [a \in Slots |-> NewLock]
    /\ request_lock = [a \in Slots |-> NewLock]
    /\ last_run_age = [a \in Slots |-> PacingTicks]
    /\ flood = [a \in Slots |-> NoFlood]
    /\ replaced = [a \in Slots |-> FALSE]
    /\ pc = [c \in Calls |-> "idle"]
    /\ account = [c \in Calls |-> 0]
    /\ retries = [c \in Calls |-> 0]
    /\ sleep_left = [c \in Calls |-> 0]
    /\ signal = [c \in Calls |-> 0]
    /\ result = [c \in Calls |-> "pending"]
    /\ attempts = [c \in Calls |-> 0]
    /\ page_created = [c \in Calls |-> FALSE]
    /\ since_request = [a \in Slots |-> PacingTicks]

NextPublish ==
    \/ \E c \in Calls : Publish(c) /\ UNCHANGED besidesPublish
    \/ \E c \in Calls : Retry(c) /\ UNCHANGED besidesPublish
    \/ \E a \in Slots : GateWakePage(a) /\ UNCHANGED besidesPublish
    \/ \E a \in Slots : LockWake(a) /\ UNCHANGED besidesPublish
    \/ \E c \in Calls : Send(c) /\ UNCHANGED besidesPublish
    \/ \E c \in Calls : ResponseOk(c) /\ UNCHANGED besidesPublish
    \/ \E c \in Calls, o \in Outcomes : ResponseRaise(c, o) /\ UNCHANGED besidesPublish
    \/ \E c \in Calls : ResponseNetwork(c) /\ UNCHANGED besidesPublish
    \/ \E c \in Calls, n \in FloodSignals : ResponseFlood(c, n) /\ UNCHANGED besidesPublish
    \/ \E c \in Calls : FloodWait(c) /\ UNCHANGED besidesPublish
    \/ \E a \in Slots : GateWakeFlood(a) /\ UNCHANGED besidesPublish
    \/ \E a \in Slots : FloodWaitEnd(a) /\ UNCHANGED besidesPublish
    \/ \E a \in Slots : CreateAccount(a) /\ UNCHANGED besidesPublish
    \/ \E c \in Calls : Finish(c) /\ UNCHANGED besidesPublish
    \/ TickPublish /\ UNCHANGED besidesPublish


(***************************************************************************)
(* The fetch engine: get() and _get() of web.py                            *)
(***************************************************************************)
Fetches == 1..MaxFetches
Hosts == 1..MaxHosts

DefaultTimeout == 12

\* the statuses a response may carry
Statuses == {200, 304, 404, 400, 403, 429, 451}

\* the exceptions a connection attempt may raise: asyncio.TimeoutError when
\* ClientTimeout(total=timeout) is over, ServerConnectionError (the server
\* closed or reset the connection), ClientConnectorError (connection refused
\* or network unreachable; a ClientConnectionError)
Exceptions == {"TimeoutError", "ServerConnectionError", "ClientConnectorError"}

\* the tuple with aiohttp.ClientConnectionError left in, against which C9 is tested
RetryEveryConnectionError == {"TimeoutError", "ServerConnectionError", "ClientConnectorError"}

EXCEPTIONS_SHOULD_RETRY == {"TimeoutError", "ServerConnectionError"}

\* the statuses that make _get fall back to IPv4
FallbackStatuses == {400, 403, 429, 451}

Response(st) == [status |-> st, exc |-> ""]
Raised(e) == [status |-> 0, exc |-> e]

Pending == [kind |-> "pending", status |-> 0, exc |-> ""]
Returns(o) == [kind |-> IF o.exc = "" THEN "response" ELSE "raise",
               status |-> o.status, exc |-> o.exc]

\* if not timeout: timeout = 12
Timeout == IF FetchTimeout = 0 THEN DefaultTimeout ELSE FetchTimeout

\* a deadline doubled whatever env.IPV6_PRIOR is, against which C12 is tested
WaitForTimeoutDoubled == (Timeout * 2 + DeadlineExtra) * 2

\* wait_for_timeout = (timeout * 2 + 5) * (2 if env.IPV6_PRIOR else 1)
WaitForTimeout == (Timeout * 2 + DeadlineExtra) * (IF IPV6_PRIOR THEN 2 ELSE 1)

\* the wait of RetryClient before its second attempt
Backoff == RetryStartTimeout

\* the call has a timeout: get passes one to _get and wraps it in
\* asyncio.wait_for; get_medium_info calls _get(url, resp_callback=...), whose
\* timeout is None (aiohttp.ClientTimeout(total=None)), without wait_for
Timed(f) == entry[f] = "get"

\* what a connection attempt of call f may end with now.  A host that is
\* reachable over IPv4 only fails over IPv6 and answers 200 otherwise;
\* the timeout error is raised when the time of the attempt is over.
AttemptOutcomes(f) ==
    LET timeouts == IF Timed(f) /\ ftimer[f] = Timeout THEN {"TimeoutError"} ELSE {}
        failures == {Raised(e) : e \in (Exceptions \ {"TimeoutError"}) \cup timeouts}
    IN IF host[f] \in v4_only
       THEN IF socket_family[f] = "AF_INET6" THEN failures ELSE {Response(200)}
       ELSE failures \cup {Response(st) : st \in Statuses}

\* the permits call f holds
HoldsOverall(f) == fpc[f] \in {"waitHost", "attempt", "backoff"}
HoldsHost(f) == fpc[f] \in {"attempt", "backoff"}

\* a release of the process-wide semaphore by a call that holds no permit of
\* it, against which C11 is tested
ReleasedOverallUnheld(f) == overall_web_semaphore + 1

\* leaving "async with locks.overall_web_semaphore: async with semaphore_to_use:"
ReleasedOverall(f) == IF HoldsOverall(f) THEN overall_web_semaphore + 1
                      ELSE overall_web_semaphore
\* a call that keeps the permit of its host when it leaves, against which C28
\* is tested
ReleasedHostNever(f) == hostname_semaphore

ReleasedHost(f) == IF HoldsHost(f)
                   THEN [hostname_semaphore EXCEPT ![host[f]] = @ + 1]
                   ELSE hostname_semaphore

\* "async with semaphore_to_use:" and the start of the RetryClient request.
\* hs is hostname_semaphore as the step has left it so far.
EnterHost(f, h, hs) ==
    IF hs[h] > 0
    THEN /\ hostname_semaphore' = [hs EXCEPT ![h] = @ - 1]
         /\ fpc' = [fpc EXCEPT ![f] = "attempt"]
         /\ current_attempt' = [current_attempt EXCEPT ![f] = 1]
    ELSE /\ hostname_semaphore' = hs
         /\ fpc' = [fpc EXCEPT ![f] = "waitHost"]
         /\ UNCHANGED current_attempt

\* "async with locks.overall_web_semaphore:" and on.  ov and hs are the
\* semaphores as the step has left them so far.
Admission(f, h, ov, hs) ==
    IF ov > 0
    THEN /\ overall_web_semaphore' = ov - 1
         /\ EnterHost(f, h, hs)
    ELSE /\ overall_web_semaphore' = ov
         /\ hostname_semaphore' = hs
         /\ fpc' = [fpc EXCEPT ![f] = "waitOverall"]
         /\ UNCHANGED current_attempt

\* the head of "while True": tries += 1; assert tries <= 2; "if
\* retry_in_v4_flag: socket_family = AF_INET"; then the admission.  family is
\* socket_family and flag is retry_in_v4_flag when the loop head is reached.
LoopHead(f, h, family, flag, ov, hs) ==
    /\ tries' = [tries EXCEPT ![f] = @ + 1]
    /\ retry_in_v4_flag' = [retry_in_v4_flag EXCEPT ![f] = flag]
    /\ ftimer' = [ftimer EXCEPT ![f] = 0]
    /\ IF tries[f] + 1 > MaxTries
       THEN \* AssertionError: Too many tries
            /\ fpc' = [fpc EXCEPT ![f] = "done"]
            /\ fresult' = [fresult EXCEPT ![f] = Returns(Raised("AssertionError"))]
            /\ socket_family' = [socket_family EXCEPT ![f] = family]
            /\ overall_web_semaphore' = ov
            /\ hostname_semaphore' = hs
            /\ UNCHANGED current_attempt
       ELSE /\ socket_family' = [socket_family EXCEPT ![f] =
                                    IF flag THEN "AF_INET" ELSE family]
            /\ Admission(f, h, ov, hs)
            /\ UNCHANGED fresult

\* get(url), or get_medium_info(url) for a url that is not in its cache, is
\* called: _get starts, with the AAAA query if env.IPV6_PRIOR
Get(f, h, e) ==
    /\ fpc[f] = "idle"
    /\ h \in Hosts
    /\ e \in {"get", "get_medium_info"}
    /\ entry' = [entry EXCEPT ![f] = e]
    /\ host' = [host EXCEPT ![f] = h]
    /\ IF IPV6_PRIOR
       THEN /\ fpc' = [fpc EXCEPT ![f] = "dns"]
            /\ UNCHANGED <<overall_web_semaphore, hostname_semaphore, socket_family,
                           tries, retry_in_v4_flag, current_attempt, ftimer, fresult>>
       ELSE LoopHead(f, h, "0", FALSE, overall_web_semaphore, hostname_semaphore)
    /\ UNCHANGED <<IPV6_PRIOR, v4_only, others, age, attempt_log>>

\* the AAAA query ends (an address, or DNSError / the 1 s timeout / another
\* error: no address): socket_family = AF_INET6 if v6_address else 0
Resolved(f, v6_address) ==
    /\ fpc[f] = "dns"
    /\ LoopHead(f, host[f], IF v6_address THEN "AF_INET6" ELSE "0", FALSE,
                overall_web_semaphore, hostname_semaphore)
    /\ UNCHANGED <<IPV6_PRIOR, v4_only, entry, others, host, age, attempt_log>>

\* a call that waits for the process-wide semaphore gets a permit
AcquireOverall(f) ==
    /\ fpc[f] = "waitOverall"
    /\ overall_web_semaphore > 0
    /\ Admission(f, host[f], overall_web_semaphore, hostname_semaphore)
    /\ UNCHANGED <<IPV6_PRIOR, v4_only, entry, others, host, socket_family, tries, retry_in_v4_flag,
                   ftimer, age, fresult, attempt_log>>

\* a call that waits for the semaphore of its host gets a permit
AcquireHost(f) ==
    /\ fpc[f] = "waitHost"
    /\ hostname_semaphore[host[f]] > 0
    /\ EnterHost(f, host[f], hostname_semaphore)
    /\ UNCHANGED <<IPV6_PRIOR, v4_only, entry, others, overall_web_semaphore, host, socket_family,
                   tries, retry_in_v4_flag, ftimer, age, fresult, attempt_log>>

\* RetryClient retries the request after this exception
RetriesInside(f, o) ==
    /\ o.exc \in EXCEPTIONS_SHOULD_RETRY
    /\ current_attempt[f] < RetryAttempts

\* an attempt of RetryClient fails and RetryClient waits before the next one
AttemptRetried(f, o) ==
    /\ fpc[f] = "attempt"
    /\ o \in AttemptOutcomes(f)
    /\ RetriesInside(f, o)
    /\ fpc' = [fpc EXCEPT ![f] = "backoff"]
    /\ ftimer' = [ftimer EXCEPT ![f] = 0]
    /\ UNCHANGED <<IPV6_PRIOR, v4_only, entry, others, overall_web_semaphore, hostname_semaphore,
                   host, socket_family, tries, retry_in_v4_flag, current_attempt,
                   age, fresult, attempt_log>>

\* the wait of RetryClient is over: its next attempt starts
BackoffOver(f) ==
    /\ fpc[f] = "backoff"
    /\ ftimer[f] = Backoff
    /\ fpc' = [fpc EXCEPT ![f] = "attempt"]
    /\ current_attempt' = [current_attempt EXCEPT ![f] = @ + 1]
    /\ ftimer' = [ftimer EXCEPT ![f] = 0]
    /\ UNCHANGED <<IPV6_PRIOR, v4_only, entry, others, overall_web_semaphore, hostname_semaphore,
                   host, socket_family, tries, retry_in_v4_flag, age, fresult,
                   attempt_log>>

\* the fallback whenever the status is one of the four, against which C8 is tested
StatusAlwaysFallsBack(family, n, st) == st # 200 /\ st \in FallbackStatuses

\* "elif socket_family == AF_INET6 and tries == 1 and status in (400, 403,
\* 429, 451)", reached when status != 200
StatusFallsBack(family, n, st) ==
    st # 200 /\ family = "AF_INET6" /\ n = 1 /\ st \in FallbackStatuses

\* "except EXCEPTIONS_SHOULD_RETRY as e: if socket_family != AF_INET6 or
\* tries > 1: raise e", else the retry over IPv4
ErrorFallsBack(family, n, e) ==
    e \in EXCEPTIONS_SHOULD_RETRY /\ ~(family # "AF_INET6" \/ n > 1)

\* the connection attempt of the call ends with a response or an exception
\* that leaves RetryClient: the semaphores are released, and _get returns,
\* raises, or goes round its loop again with retry_in_v4_flag set
AttemptEnds(f, o) ==
    /\ fpc[f] = "attempt"
    /\ o \in AttemptOutcomes(f)
    /\ ~RetriesInside(f, o)
    /\ attempt_log' = [attempt_log EXCEPT ![f] =
                          Append(@, [family |-> socket_family[f], outcome |-> o])]
    /\ IF \/ o.exc = "" /\ StatusFallsBack(socket_family[f], tries[f], o.status)
          \/ o.exc # "" /\ ErrorFallsBack(socket_family[f], tries[f], o.exc)
       THEN LoopHead(f, host[f], socket_family[f], TRUE,
                     ReleasedOverall(f), ReleasedHost(f))
       ELSE /\ fpc' = [fpc EXCEPT ![f] = "done"]
            /\ fresult' = [fresult EXCEPT ![f] = Returns(o)]
            /\ overall_web_semaphore' = ReleasedOverall(f)
            /\ hostname_semaphore' = ReleasedHost(f)
            /\ ftimer' = [ftimer EXCEPT ![f] = 0]
            /\ UNCHANGED <<socket_family, tries, retry_in_v4_flag, current_attempt>>
    /\ UNCHANGED <<IPV6_PRIOR, v4_only, entry, others, host, age>>

\* the outer deadline of get() passes: asyncio.wait_for cancels _get, which
\* leaves its "async with" blocks, and raises TimeoutError
DeadlinePasses(f) ==
    /\ fpc[f] \notin {"idle", "done"}
    /\ Timed(f)
    /\ age[f] = WaitForTimeout
    /\ fpc' = [fpc EXCEPT ![f] = "done"]
    /\ fresult' = [fresult EXCEPT ![f] =
                      [kind |-> "deadline", status |-> 0, exc |-> "TimeoutError"]]
    /\ overall_web_semaphore' = ReleasedOverall(f)
    /\ hostname_semaphore' = ReleasedHost(f)
    /\ UNCHANGED <<IPV6_PRIOR, v4_only, entry, others, host, socket_family, tries, retry_in_v4_flag,
                   current_attempt, ftimer, age, attempt_log>>

\* another fetch call of the process, on host h, goes through "async with
\* locks.overall_web_semaphore: async with semaphore_to_use:" at once
OtherEnters(h) ==
    /\ h \in Hosts
    /\ overall_web_semaphore > 0
    /\ hostname_semaphore[h] > 0
    /\ overall_web_semaphore' = overall_web_semaphore - 1
    /\ hostname_semaphore' = [hostname_semaphore EXCEPT ![h] = @ - 1]
    /\ others' = others (+) SetToBag({h})
    /\ UNCHANGED <<IPV6_PRIOR, v4_only, entry, fpc, host, socket_family, tries,
                   retry_in_v4_flag, current_attempt, ftimer, age, fresult,
                   attempt_log>>

\* the connection attempt of another fetch call ends: it leaves both blocks
OtherLeaves(h) ==
    /\ BagIn(h, others)
    /\ overall_web_semaphore' = overall_web_semaphore + 1
    /\ hostname_semaphore' = [hostname_semaphore EXCEPT ![h] = @ + 1]
    /\ others' = others (-) SetToBag({h})
    /\ UNCHANGED <<IPV6_PRIOR, v4_only, entry, fpc, host, socket_family, tries,
                   retry_in_v4_flag, current_attempt, ftimer, age, fresult,
                   attempt_log>>

\* some task of the event loop is ready to run, or a timeout is due
FetchReady ==
    \E f \in Fetches :
        \/ fpc[f] = "dns" /\ ftimer[f] = DnsTimeout
        \/ fpc[f] = "attempt" /\ Timed(f) /\ ftimer[f] = Timeout
        \/ fpc[f] = "backoff" /\ ftimer[f] = Backoff
        \/ fpc[f] = "waitOverall" /\ overall_web_semaphore > 0
        \/ fpc[f] = "waitHost" /\ hostname_semaphore[host[f]] > 0
        \/ fpc[f] \notin {"idle", "done"} /\ Timed(f) /\ age[f] = WaitForTimeout

\* a second passes while every task is suspended
TickFetch ==
    /\ ~FetchReady
    /\ \E f \in Fetches : fpc[f] \notin {"idle", "done"}
    /\ \A f \in Fetches : (fpc[f] \notin {"idle", "done"} /\ ~Timed(f)) => age[f] < MaxAge
    /\ age' = [f \in Fetches |-> IF fpc[f] \notin {"idle", "done"} THEN age[f] + 1
                                 ELSE age[f]]
    /\ ftimer' = [f \in Fetches |-> IF \/ fpc[f] \in {"dns", "backoff"}
                                       \/ fpc[f] = "attempt" /\ Timed(f)
                                    THEN ftimer[f] + 1 ELSE ftimer[f]]
    /\ UNCHANGED <<IPV6_PRIOR, v4_only, entry, others, overall_web_semaphore, hostname_semaphore,
                   fpc, host, socket_family, tries, retry_in_v4_flag,
                   current_attempt, fresult, attempt_log>>

InitFetch ==
    /\ IPV6_PRIOR \in BOOLEAN
    /\ v4_only \in SUBSET Hosts
    /\ overall_web_semaphore = OverallLimit
    /\ others = EmptyBag
    /\ hostname_semaphore = [h \in Hosts |-> HostLimit]
    /\ entry = [f \in Fetches |-> "get"]
    /\ fpc = [f \in Fetches |-> "idle"]
    /\ host = [f \in Fetches |-> 1]
    /\ socket_family = [f \in Fetches |-> "0"]
    /\ tries = [f \in Fetches |-> 0]
    /\ retry_in_v4_flag = [f \in Fetches |-> FALSE]
    /\ current_attempt = [f \in Fetches |-> 0]
    /\ ftimer = [f \in Fetches |-> 0]
    /\ age = [f \in Fetches |-> 0]
    /\ fresult = [f \in Fetches |-> Pending]
    /\ attempt_log = [f \in Fetches |-> <<>>]

NextFetch ==
    \/ \E f \in Fetches, h \in Hosts : Get(f, h, "get") /\ UNCHANGED besidesFetch
    \/ \E f \in Fetches, h \in Hosts : Get(f, h, "get_medium_info") /\ UNCHANGED besidesFetch
    \/ \E f \in Fetches, a \in BOOLEAN : Resolved(f, a) /\ UNCHANGED besidesFetch
    \/ \E f \in Fetches : AcquireOverall(f) /\ UNCHANGED besidesFetch
    \/ \E f \in Fetches : AcquireHost(f) /\ UNCHANGED besidesFetch
    \/ \E f \in Fetches, e \in Exceptions : AttemptRetried(f, Raised(e)) /\ UNCHANGED besidesFetch
    \/ \E f \in Fetches : BackoffOver(f) /\ UNCHANGED besidesFetch
    \/ \E f \in Fetches, e \in Exceptions : AttemptEnds(f, Raised(e)) /\ UNCHANGED besidesFetch
    \/ \E f \in Fetches, st \in Statuses : AttemptEnds(f, Response(st)) /\ UNCHANGED besidesFetch
    \/ \E f \in Fetches : DeadlinePasses(f) /\ UNCHANGED besidesFetch
    \/ \E h \in Hosts : OtherEnters(h) /\ UNCHANGED besidesFetch
    \/ \E h \in Hosts : OtherLeaves(h) /\ UNCHANGED besidesFetch
    \/ TickFetch /\ UNCHANGED besidesFetch

(***************************************************************************)
(* The response of a fetch: the end of _get, __norm_callback and feed_get  *)
(***************************************************************************)
\* the values of the Content-Type header; <<>> is a missing or empty header,
\* a value is the sequence of its parts
ContentTypes == {<<>>, <<"text/html">>, <<"text/html", "charset=utf-8">>, <<"image/png">>}

IntendedTypes == {<<>>, <<"text/html">>}

\* the values of the Content-Length header; <<>> is a missing header
LengthHeaders == {<<>>, <<"0">>, <<"1">>, <<"2">>, <<"x">>}

\* the lengths of the body the remote side sends
Bodies == 0..MaxBody

\* max_size of get: None, 0 (ignore the body) or a positive cap
MaxSizes == {<<>>} \cup {<<n>> : n \in 0..MaxCap}

\* decode and max_size as get accepts them together ("cannot mix")
ReadPolicies == {<<d, m>> \in BOOLEAN \X MaxSizes : d => m = <<>>}

\* the exception classes get may raise, all of them subclasses of Exception
GetExceptions == {"InvalidURL", "TimeoutError", "ClientConnectorError",
                  "ServerConnectionError", "SSLError", "OSError",
                  "ConnectionError", "ValueError", "AssertionError"}

\* what feedparser.parse may give
ParseOutcomes == {"titled", "untitled", "raises"}

\* int(s): the numerals of the model
IsNumeral(str) == str \in {"0", "1", "2", "3"}
IntOf(str) == CASE str = "0" -> 0 [] str = "1" -> 1 [] str = "2" -> 2 [] str = "3" -> 3

\* str(n)
StrOf(n) == CASE n = 0 -> "0" [] n = 1 -> "1" [] n = 2 -> "2" [] n = 3 -> "3"

\* content_type.startswith(intended_content_type)
StartsWith(str, prefix) ==
    Len(prefix) <= Len(str) /\ SubSeq(str, 1, Len(prefix)) = prefix

\* None, and a body of n bytes or characters, as the content of a WebResponse
NoContent == [none |-> TRUE, len |-> 0]
Content(n) == [none |-> FALSE, len |-> n]

\* what a callback gives: a content, or an exception
Gives(c) == [exc |-> "", content |-> c]
Throws(e) == [exc |-> e, content |-> NoContent]

\* a gate that a missing Content-Type header does not pass, against which
\* C14 is tested
TypeGateStrict(content_type, intended) ==
    intended = <<>> \/ (content_type # <<>> /\ StartsWith(content_type, intended))

\* "if not intended_content_type or not content_type or
\* content_type.startswith(intended_content_type)"
TypeGate(content_type, intended) ==
    intended = <<>> \/ content_type = <<>> \/ StartsWith(content_type, intended)

\* response.headers.get('Content-Length', default)
LengthHeader(content_length, default) ==
    IF content_length = <<>> THEN default ELSE content_length[1]

\* __norm_callback(response, decode, max_size, intended_content_type)
NormCallback(content_type, content_length, body, dec, cap, intended) ==
    IF TypeGate(content_type, intended)
    THEN IF dec THEN Gives(Content(body))
         ELSE IF cap = <<>> THEN Gives(Content(body))
         ELSE IF cap[1] > 0
              THEN LET declared == LengthHeader(content_length, StrOf(cap[1])) IN
                   IF IsNumeral(declared)
                   THEN Gives(Content(Min(body, Min(IntOf(declared), cap[1]))))
                   ELSE Throws("ValueError")
              ELSE Gives(NoContent)
    ELSE Gives(NoContent)

\* what get gives its caller
NoWeb == [kind |-> "pending", status |-> 0, content_type |-> <<>>,
          content_length |-> <<>>, content |-> NoContent, exc |-> ""]
WebRaise(e) == [NoWeb EXCEPT !.kind = "raise", !.exc = e]

\* the end of _get for the response it returns: "content = None; if status
\* == 200: content = await resp_callback(response)", then WebResponse(...)
WebResponse(st, content_type, content_length, body, dec, cap, intended) ==
    LET read == IF st = 200
                THEN NormCallback(content_type, content_length, body, dec, cap, intended)
                ELSE Gives(NoContent)
    IN IF read.exc # "" THEN WebRaise(read.exc)
       ELSE [kind |-> "response", status |-> st, content_type |-> content_type,
             content_length |-> content_length, content |-> read.content, exc |-> ""]

\* the classes an exception is an instance of
Bases(e) ==
    CASE e = "InvalidURL" -> {"InvalidURL", "ClientError", "ValueError", "Exception"}
      [] e = "TimeoutError" -> {"TimeoutError", "Exception"}
      [] e = "ClientConnectorError" -> {"ClientConnectorError", "ClientError", "OSError", "Exception"}
      [] e = "ServerConnectionError" -> {"ServerConnectionError", "ClientError", "Exception"}
      [] e = "SSLError" -> {"SSLError", "OSError", "Exception"}
      [] e = "OSError" -> {"OSError", "Exception"}
      [] e = "ConnectionError" -> {"ConnectionError", "OSError", "Exception"}
      [] e = "ValueError" -> {"ValueError", "Exception"}
      [] e = "AssertionError" -> {"AssertionError", "Exception"}
      [] e = "RecursionError" -> {"RecursionError", "RuntimeError", "Exception"}

\* "except (asyncio.TimeoutError, aiohttp.ClientError, SSLError, OSError,
\* ConnectionError, TimeoutError)"
NetworkErrors == {"TimeoutError", "ClientError", "SSLError", "OSError", "ConnectionError"}

\* a feed_get without its last handler, against which C15 is tested
CatchesNoOther(e) == FALSE

\* "except Exception as e"
CatchesOther(e) == "Exception" \in Bases(e)

\* the error_name of the handler of feed_get that catches e; "" when none does
Handler(e) ==
    IF "InvalidURL" \in Bases(e) THEN "URL invalid"
    ELSE IF Bases(e) \cap NetworkErrors # {} THEN "network error"
    ELSE IF CatchesOther(e) THEN "internal error"
    ELSE ""

\* ret = WebFeed(url=url); raised is the exception feed_get lets through
NoFeed == [status |-> -1, rss_d |-> "none", error |-> "none", raised |-> ""]

\* exception e reaches the handlers of feed_get while ret is r
Caught(r, e) ==
    IF Handler(e) = "" THEN [r EXCEPT !.raised = e]
    ELSE [r EXCEPT !.error = Handler(e)]

\* a default of '0', against which C16 is tested
LengthOrZero(content_length) == LengthHeader(content_length, "0")

\* resp.headers.get('Content-Length', '1')
LengthOrOne(content_length) == LengthHeader(content_length, "1")

\* feed_get from "resp = await get(...)" on; w is what get gave and parsed
\* what feedparser.parse gives if it is called
FeedGet(w, parsed) ==
    IF w.kind = "raise" THEN Caught(NoFeed, w.exc)
    ELSE LET r == [NoFeed EXCEPT !.status = w.status]
             declared == LengthOrOne(w.content_length)
         IN IF w.status = 200 /\ ~IsNumeral(declared) THEN Caught(r, "ValueError")
            ELSE IF w.status = 200 /\ IntOf(declared) = 0 THEN [r EXCEPT !.status = 304]
            ELSE IF w.status = 304 THEN r
            ELSE IF w.content.none THEN [r EXCEPT !.error = "status code error"]
            ELSE IF parsed = "raises" THEN Caught(r, "RecursionError")
            ELSE IF parsed = "untitled" THEN [r EXCEPT !.error = "feed invalid"]
            ELSE [r EXCEPT !.rss_d = "parsed"]

\* get(url, decode=..., max_size=..., intended_content_type=...) is called
CallGet(dec, cap, intended) ==
    /\ rpc = "idle"
    /\ <<dec, cap>> \in ReadPolicies
    /\ intended \in IntendedTypes
    /\ rpc' = "requested"
    /\ caller' = "get"
    /\ decode' = dec
    /\ max_size' = cap
    /\ intended_content_type' = intended
    /\ UNCHANGED <<web, ret>>

\* feed_get(url) is called: "resp = await get(url, timeout, web_semaphore,
\* headers=_headers)"
CallFeedGet ==
    /\ rpc = "idle"
    /\ rpc' = "requested"
    /\ caller' = "feed_get"
    /\ UNCHANGED <<decode, max_size, intended_content_type, web, ret>>

\* the response that _get returns arrives
Answer(st, content_type, content_length, body) ==
    /\ rpc = "requested"
    /\ st \in Statuses
    /\ content_type \in ContentTypes
    /\ content_length \in LengthHeaders
    /\ body \in Bodies
    /\ web' = WebResponse(st, content_type, content_length, body,
                          decode, max_size, intended_content_type)
    /\ rpc' = IF caller = "get" THEN "done" ELSE "fetched"
    /\ UNCHANGED <<caller, decode, max_size, intended_content_type, ret>>

\* get raises: an error of the connection, the outer deadline, ...
Fail(e) ==
    /\ rpc = "requested"
    /\ e \in GetExceptions
    /\ web' = WebRaise(e)
    /\ rpc' = IF caller = "get" THEN "done" ELSE "fetched"
    /\ UNCHANGED <<caller, decode, max_size, intended_content_type, ret>>

\* feed_get goes on with what get gave, and returns or raises
FeedReturns(parsed) ==
    /\ rpc = "fetched"
    /\ parsed \in ParseOutcomes
    /\ ret' = FeedGet(web, parsed)
    /\ rpc' = "done"
    /\ UNCHANGED <<caller, decode, max_size, intended_content_type, web>>

InitRespond ==
    /\ rpc = "idle"
    /\ caller = "none"
    /\ decode = FALSE
    /\ max_size = <<>>
    /\ intended_content_type = <<>>
    /\ web = NoWeb
    /\ ret = NoFeed

NextRespond ==
    \/ \E p \in ReadPolicies, i \in IntendedTypes : CallGet(p[1], p[2], i) /\ UNCHANGED besidesRespond
    \/ CallFeedGet /\ UNCHANGED besidesRespond
    \/ \E st \in Statuses, ct \in ContentTypes, cl \in LengthHeaders, b \in Bodies :
          Answer(st, ct, cl, b) /\ UNCHANGED besidesRespond
    \/ \E e \in GetExceptions : Fail(e) /\ UNCHANGED besidesRespond
    \/ \E parsed \in ParseOutcomes : FeedReturns(parsed) /\ UNCHANGED besidesRespond


(***************************************************************************)
(* get_medium_info behind asyncstdlib.functools.lru_cache                  *)
(***************************************************************************)
Probes == 1..MaxProbes

\* the urls probed: http urls, and one url that starts with "data:"
HttpUrls == 1..MaxUrls
DataUrl == 0
Urls == HttpUrls \cup {DataUrl}

\* url.startswith('data:')
IsData(url) == url = DataUrl

\* a key of the cache is used: cache.move_to_end(key), or its insertion
Touched(c, url) == Append(SelectSeq(c, LAMBDA k : k # url), url)

\* the result of a call is stored, unless a concurrent call has stored the
\* key in the meantime; the least recently used key goes when the cache is full
Stored(c, url) ==
    IF \E i \in 1..Len(c) : c[i] = url THEN c
    ELSE IF Len(c) >= CacheSize THEN Append(Tail(c), url)
    ELSE Append(c, url)

\* the keys of the cache
Cached == {cache[i] : i \in 1..Len(cache)}

\* get_medium_info(url) is called: a hit returns the cached result; on a miss
\* the function runs, returns None at once for a data: url, and otherwise
\* starts its fetch with _get
Probe(p, url) ==
    /\ probe_pc[p] = "idle"
    /\ url \in Urls
    /\ probe_url' = [probe_url EXCEPT ![p] = url]
    /\ IF url \in Cached
       THEN /\ cache' = Touched(cache, url)
            /\ probe_pc' = [probe_pc EXCEPT ![p] = "done"]
            /\ UNCHANGED <<network_calls, evicted>>
       ELSE IF IsData(url)
       THEN /\ cache' = Stored(cache, url)
            /\ evicted' = evicted \cup (Cached \ {k \in Urls : \E i \in 1..Len(cache') : cache'[i] = k})
            /\ probe_pc' = [probe_pc EXCEPT ![p] = "done"]
            /\ UNCHANGED network_calls
       ELSE /\ network_calls' = [network_calls EXCEPT ![url] = @ + 1]
            /\ probe_pc' = [probe_pc EXCEPT ![p] = "fetching"]
            /\ UNCHANGED <<cache, evicted>>

\* the fetch of a call ends (a response or an exception: the function
\* returns a tuple or None), and the result is stored
ProbeEnds(p) ==
    /\ probe_pc[p] = "fetching"
    /\ cache' = Stored(cache, probe_url[p])
    /\ evicted' = evicted \cup (Cached \ {k \in Urls : \E i \in 1..Len(cache') : cache'[i] = k})
    /\ probe_pc' = [probe_pc EXCEPT ![p] = "done"]
    /\ UNCHANGED <<probe_url, network_calls>>

InitProbe ==
    /\ cache = <<>>
    /\ probe_pc = [p \in Probes |-> "idle"]
    /\ probe_url = [p \in Probes |-> DataUrl]
    /\ network_calls = [u \in HttpUrls |-> 0]
    /\ evicted = {}

NextProbe ==
    \/ \E p \in Probes, url \in Urls : Probe(p, url) /\ UNCHANGED besidesProbe
    \/ \E p \in Probes : ProbeEnds(p) /\ UNCHANGED besidesProbe

(***************************************************************************)
(* QueuedHelper: the queue, its producers and its consumer task            *)
(***************************************************************************)
Entries == 1..MaxEntries

\* (None, None), which only close_sync puts into the queue
Sentinel == 0

\* the maxsize the queue constructor may be given; 0 is no bound
MaxSizeChoices == {0, MaxQueue}

\* a queue that reads as empty whatever it holds, against which C18 is tested
EmptyAlways(q) == TRUE

\* queue.empty()
Empty(q) == q = <<>>

\* queue.full()
Full(q) == maxsize > 0 /\ Len(q) >= maxsize

\* a queue that gives its newest item first, against which C20 is tested
PutFirst(q, item) == <<item>> \o q

\* Queue._put(item) of asyncio.Queue: first in, first out
Put(q, item) == Append(q, item)

\* a consumer that a cancellation does not reach, against which C19 is tested
CancelIgnored(requested) == FALSE

\* Task.cancel() has been called: CancelledError is thrown into the task at
\* its next step
Cancels(requested) == requested

\* a consumer task that always reads as ended, against which C21 is tested
ConsumerEnded == TRUE

\* self._consumer_task.done()
ConsumerDone == consumer \in {"stopped", "cancelled"}

\* put_nowait wakes the consumer that waits in queue.get()
Awake(state) == IF state = "waiting" THEN "ready" ELSE state

\* the index of the first sentinel of q, or Len(q) + 1
FirstSentinel(q) ==
    IF \E i \in 1..Len(q) : q[i] = Sentinel
    THEN CHOOSE i \in 1..Len(q) : q[i] = Sentinel /\ \A j \in 1..(i - 1) : q[j] # Sentinel
    ELSE Len(q) + 1

\* the elements of a sequence
Range(seq) == {seq[i] : i \in 1..Len(seq)}

\* init_sync(loop): nothing if the consumer task is alive, else a new queue
\* and a new consumer task
InitSync ==
    /\ inits < MaxInits
    /\ inits' = inits + 1
    /\ IF consumer # "none" /\ ~ConsumerDone
       THEN UNCHANGED <<queue, putters, woken, consumer, must_cancel, gen_start, alive>>
       ELSE /\ queue' = <<>>
            /\ putters' = <<>>
            /\ woken' = {}
            /\ consumer' = "ready"
            /\ must_cancel' = FALSE
            /\ gen_start' = Len(enqueued)
            /\ alive' = alive + 1
    /\ UNCHANGED <<maxsize, next_entry, enqueued, spawned, abandoned, raised, task,
                   closer, closes>>

\* queued_nowait(*args): put_nowait, which raises QueueFull on a full queue
QueuedNowait ==
    /\ consumer # "none"
    /\ next_entry <= MaxEntries
    /\ next_entry' = next_entry + 1
    /\ IF Full(queue)
       THEN UNCHANGED <<queue, consumer, enqueued>>
       ELSE /\ queue' = Put(queue, next_entry)
            /\ enqueued' = Append(enqueued, next_entry)
            /\ consumer' = Awake(consumer)
    /\ UNCHANGED <<maxsize, putters, woken, must_cancel, spawned, abandoned,
                   gen_start, inits, closes, alive, task, closer, raised>>

\* await queued(*args): queue.put, which waits while the queue is full
Queued ==
    /\ consumer # "none"
    /\ next_entry <= MaxEntries
    /\ next_entry' = next_entry + 1
    /\ IF Full(queue)
       THEN /\ putters' = Append(putters, next_entry)
            /\ UNCHANGED <<queue, consumer, enqueued>>
       ELSE /\ queue' = Put(queue, next_entry)
            /\ enqueued' = Append(enqueued, next_entry)
            /\ consumer' = Awake(consumer)
            /\ UNCHANGED putters
    /\ UNCHANGED <<maxsize, woken, must_cancel, spawned, abandoned, gen_start, inits,
                   closes, alive, task, closer, raised>>

\* a producer that get_nowait has woken runs: "while self.full()" again
PutterRuns(e) ==
    /\ e \in woken
    /\ woken' = woken \ {e}
    /\ IF Full(queue)
       THEN /\ putters' = Append(putters, e)
            /\ UNCHANGED <<queue, consumer, enqueued>>
       ELSE /\ queue' = Put(queue, e)
            /\ enqueued' = Append(enqueued, e)
            /\ consumer' = Awake(consumer)
            /\ UNCHANGED putters
    /\ UNCHANGED <<maxsize, must_cancel, next_entry, spawned, abandoned, gen_start, inits,
                   closes, alive, task, closer, raised>>

\* a loop that a raising item ends: the items up to the first of failing,
\* against which C22 is tested
HandledUntilRaise(items, failing) ==
    IF \E i \in 1..Len(items) : items[i] \in failing
    THEN SubSeq(items, 1, CHOOSE i \in 1..Len(items) :
                    items[i] \in failing /\ \A j \in 1..(i - 1) : items[j] \notin failing)
    ELSE items

\* the items the loop of _consumer gets through when calling func raises for
\* those of failing: all, as "except Exception" logs and the loop goes on
Handled(items, failing) == items

\* the task that awaits the consumer task is woken when the consumer ends
Wakes(state, how) == IF state = "awaiting" THEN how ELSE state

\* the consumer task runs.  A cancelled task ends at once.  Otherwise
\* "await queue.get()" does not suspend while the queue holds an item: the
\* task takes the items one after another and ends at the sentinel or waits
\* on the empty queue; each get_nowait wakes the producer that has waited
\* longest.  For each item func(*args, **kwargs) either raises an Exception,
\* which is logged, or gives the awaitable a task is created for.
Consume ==
    /\ consumer = "ready"
    /\ IF Cancels(must_cancel)
       THEN /\ consumer' = "cancelled"
            /\ alive' = alive - 1
            /\ closer' = Wakes(closer, "woken_cancelled")
            /\ UNCHANGED <<queue, putters, woken, spawned, raised, task>>
       ELSE LET stop == FirstSentinel(queue)
                taken == Min(stop, Len(queue))
                roused == Min(taken, Len(putters))
                items == SubSeq(queue, 1, stop - 1)
            IN /\ \E failing \in SUBSET Range(items) :
                    /\ raised' = raised \cup failing
                    /\ spawned' = spawned \o SelectSeq(Handled(items, failing),
                                                        LAMBDA e : e \notin failing)
                    /\ task' = [e \in Entries |->
                                  IF e \in Range(Handled(items, failing)) \ failing
                                  THEN "running" ELSE task[e]]
               /\ queue' = SubSeq(queue, stop + 1, Len(queue))
               /\ consumer' = IF stop <= Len(queue) THEN "stopped" ELSE "waiting"
               /\ alive' = IF stop <= Len(queue) THEN alive - 1 ELSE alive
               /\ closer' = IF stop <= Len(queue) THEN Wakes(closer, "woken") ELSE closer
               /\ woken' = woken \cup Range(SubSeq(putters, 1, roused))
               /\ putters' = SubSeq(putters, roused + 1, Len(putters))
    /\ UNCHANGED <<maxsize, must_cancel, next_entry, enqueued, abandoned, gen_start, inits,
                   closes>>

\* a spawned task ends, with a result or with an exception nobody retrieves
TaskEnds(e) ==
    /\ task[e] = "running"
    /\ \E end \in {"returned", "failed"} : task' = [task EXCEPT ![e] = end]
    /\ UNCHANGED <<queue, maxsize, putters, woken, consumer, must_cancel, next_entry,
                   inits, closes, alive, closer, enqueued, spawned, abandoned,
                   raised, gen_start>>

\* what close_sync() returns: False without a live consumer, else True
\* (Task.cancel() of a task that has not ended returns True)
Canceled == ~(consumer = "none" \/ ConsumerDone)

\* close_sync(): False without a live consumer; the sentinel into an empty
\* queue; else the cancellation of the consumer task
CloseSync ==
    /\ closes < MaxCloses
    /\ closes' = closes + 1
    /\ IF ~Canceled
       THEN UNCHANGED <<queue, consumer, must_cancel, abandoned>>
       ELSE IF Empty(queue)
       THEN /\ queue' = Put(queue, Sentinel)
            /\ consumer' = Awake(consumer)
            /\ UNCHANGED <<must_cancel, abandoned>>
       ELSE /\ must_cancel' = TRUE
            /\ abandoned' = abandoned \cup (Range(queue) \ {Sentinel})
            /\ UNCHANGED <<queue, consumer>>
    /\ UNCHANGED <<maxsize, putters, woken, next_entry, enqueued, spawned, gen_start, inits,
                   alive, task, raised>>

\* await close(): close_sync(), and "await self._consumer_task" if it
\* returned True
Close ==
    /\ closer \in {"idle", "returned", "raised"}
    /\ CloseSync
    /\ closer' = IF Canceled THEN "awaiting" ELSE "returned"

\* the caller of close() runs again after the consumer task has ended: the
\* await gives the task's result, or raises the CancelledError the task ended
\* with, which "except Exception" does not catch
CloseResumes ==
    /\ closer \in {"woken", "woken_cancelled"}
    /\ closer' = IF closer = "woken" THEN "returned" ELSE "raised"
    /\ UNCHANGED <<queue, maxsize, putters, woken, consumer, must_cancel, next_entry,
                   inits, closes, alive, task, enqueued, spawned, abandoned,
                   raised, gen_start>>

InitDispatch ==
    /\ queue = <<>>
    /\ maxsize \in MaxSizeChoices
    /\ putters = <<>>
    /\ woken = {}
    /\ consumer = "none"
    /\ must_cancel = FALSE
    /\ next_entry = 1
    /\ enqueued = <<>>
    /\ spawned = <<>>
    /\ abandoned = {}
    /\ raised = {}
    /\ gen_start = 0
    /\ inits = 0
    /\ closes = 0
    /\ alive = 0
    /\ task = [e \in Entries |-> "none"]
    /\ closer = "idle"

NextDispatch ==
    \/ InitSync /\ UNCHANGED besidesDispatch
    \/ QueuedNowait /\ UNCHANGED besidesDispatch
    \/ Queued /\ UNCHANGED besidesDispatch
    \/ \E e \in Entries : PutterRuns(e) /\ UNCHANGED besidesDispatch
    \/ Consume /\ UNCHANGED besidesDispatch
    \/ \E e \in Entries : TaskEnds(e) /\ UNCHANGED besidesDispatch
    \/ CloseSync /\ UNCHANGED closer /\ UNCHANGED besidesDispatch
    \/ Close /\ UNCHANGED besidesDispatch
    \/ CloseResumes /\ UNCHANGED besidesDispatch

(***************************************************************************)
(* get_page_title                                                          *)
(***************************************************************************)
\* None, and a string as the sequence of its characters
NoText == [none |-> TRUE, text |-> <<>>]
Text(t) == [none |-> FALSE, text |-> t]

\* what a call gives its caller
Returned(v) == [raised |-> "", value |-> v]
RaisedTo(e) == [raised |-> e, value |-> NoText]

\* how the fetch and the extraction of the title go: get raises; the status
\* is not 200; there is no content (wrong content type); the content is 27
\* characters or less; the page has no title element; the page has a title
TitleFetches == {"raises", "not200", "no_content", "short", "no_title", "title"}

\* the Content-Disposition header: absent, empty, with filename="f", without
\* a filename
Dispositions == {"absent", "empty", "filename", "inline"}

\* urlparse(url).path
Paths == {<<>>, <<"/">>, <<"/", "a">>, <<"/", "a", "/">>, <<"/", "a", "/", "b">>}

\* urlparse(url).hostname
Hostnames == {NoText, Text(<<"h">>)}

\* the title of the page, stripped
PageTitle == Text(<<"t">>)

\* the filename the header names
Filename == Text(<<"f">>)

\* path.rsplit('/', 1)[-1]
PathTail(path) ==
    IF \E i \in 1..Len(path) : path[i] = "/"
    THEN LET last == CHOOSE i \in 1..Len(path) :
                        path[i] = "/" /\ \A j \in (i + 1)..Len(path) : path[j] # "/"
         IN SubSeq(path, last + 1, Len(path))
    ELSE path

\* "r.headers.get('Content-Disposition') if r else None" is a non-empty string
HasDisposition(fetched, disposition) ==
    fetched # "raises" /\ disposition \in {"filename", "inline"}

\* contentDispositionFilenameParser(content_disposition) is
\* partial(pattern.search, flags=re.I)(content_disposition), and Pattern.search
\* takes no keyword "flags": the call raises TypeError
ContentDispositionFilenameParser(disposition) == RaisedTo("TypeError")

\* get_page_title(url, allow_hostname, allow_path, allow_filename)
GetPageTitle(fetched, disposition, path, hostname, allow_hostname, allow_path, allow_filename) ==
    IF fetched = "title"
    THEN Returned(PageTitle)
    ELSE \* except Exception:
         LET filename_match ==
                 IF HasDisposition(fetched, disposition)
                 THEN ContentDispositionFilenameParser(disposition)
                 ELSE Returned(NoText)
         IN IF filename_match.raised # ""
            THEN RaisedTo(filename_match.raised)
            ELSE IF ~filename_match.value.none /\ allow_filename
            THEN Returned(filename_match.value)
            ELSE IF allow_path
            THEN Returned(IF path # <<>> THEN Text(PathTail(path)) ELSE NoText)
            ELSE IF allow_hostname
            THEN Returned(hostname)
            ELSE Returned(NoText)

\* a call of get_page_title ends
PageTitleCall(fetched, disposition, path, hostname, allow_hostname, allow_path, allow_filename) ==
    /\ ~title_called
    /\ title_args' = [fetched |-> fetched, disposition |-> disposition, path |-> path,
                      hostname |-> hostname, allow_hostname |-> allow_hostname,
                      allow_path |-> allow_path, allow_filename |-> allow_filename]
    /\ title_ret' = GetPageTitle(fetched, disposition, path, hostname,
                                 allow_hostname, allow_path, allow_filename)
    /\ title_called' = TRUE

InitTitle ==
    /\ title_called = FALSE
    /\ title_args = [fetched |-> "title", disposition |-> "absent", path |-> <<>>,
                     hostname |-> NoText, allow_hostname |-> TRUE,
                     allow_path |-> FALSE, allow_filename |-> TRUE]
    /\ title_ret = Returned(NoText)

NextTitle ==
    \E fetched \in TitleFetches, disposition \in Dispositions, path \in Paths,
       hostname \in Hostnames, allow_hostname, allow_path, allow_filename \in BOOLEAN :
        /\ PageTitleCall(fetched, disposition, path, hostname,
                         allow_hostname, allow_path, allow_filename)
        /\ UNCHANGED besidesTitle

(***************************************************************************)
(* __medium_info_callback: the chunk loop                                  *)
(***************************************************************************)
\* b'\xff\xc2', b'\xff\xc1', b'\xff\xc0', in the order of the for loop
SOF2 == <<255, 194>>
SOF1 == <<255, 193>>
SOF0 == <<255, 192>>

\* the order of the markers reversed, against which C27 is tested
MarkersReversed == <<SOF0, SOF1, SOF2>>

Markers == <<SOF2, SOF1, SOF0>>

\* what the streams of the model are made of: the markers and one other byte
Pieces == {SOF2, SOF1, SOF0, <<1>>}

\* the streams of at most n pieces
RECURSIVE StreamsOf(_)
StreamsOf(n) ==
    IF n = 0 THEN {<<>>}
    ELSE LET shorter == StreamsOf(n - 1)
         IN shorter \cup {s \o p : s \in shorter, p \in Pieces}

\* what PIL.Image.open(buffer) and image.size do with the bytes read so far:
\* the size, UnidentifiedImageError, or another exception
DecodeOutcomes == {"image", "unidentified", "other"}

\* file_header.find(marker): the index, from 0, of the first occurrence, or -1
Find(file_header, marker) ==
    LET at == {i \in 1..(Len(file_header) - 1) :
                  file_header[i] = marker[1] /\ file_header[i + 1] = marker[2]}
    IN IF at = {} THEN -1
       ELSE (CHOOSE i \in at : \A j \in at : i <= j) - 1

\* "for marker in (...): p = file_header.find(marker); if p != -1: pointer = p;
\* break", from the i-th marker on
RECURSIVE PointerFrom(_, _)
PointerFrom(file_header, i) ==
    IF i > Len(Markers) THEN -1
    ELSE IF Find(file_header, Markers[i]) # -1 THEN Find(file_header, Markers[i])
    ELSE PointerFrom(file_header, i + 1)

Pointer(file_header) == PointerFrom(file_header, 1)

\* int(file_header[from:from + 2].hex(), 16), with from counted from 0
Field(file_header, from) == file_header[from + 1] * 256 + file_header[from + 2]

\* what the callback returns
NoSize == [width |-> -1, height |-> -1, how |-> "none"]
PilSize == [width |-> ImageWidth, height |-> ImageHeight, how |-> "image"]
MarkerSize(file_header, pointer) ==
    [width |-> Field(file_header, pointer + WidthOffset),
     height |-> Field(file_header, pointer + HeightOffset),
     how |-> "marker"]

\* "if pointer != -1 and pointer + 9 <= len(file_header)"
MarkerComplete(file_header) ==
    Pointer(file_header) # -1 /\ Pointer(file_header) + MarkerSpan <= Len(file_header)

\* the callback has passed the check of the content type and starts to read
StartReading(s, jpeg, limit) ==
    /\ medium_pc = "idle"
    /\ medium_pc' = "reading"
    /\ stream' = s
    /\ is_jpeg' = jpeg
    /\ max_read_length' = limit
    /\ UNCHANGED <<buffer, medium_ret, decoded>>

\* one round of "async for chunk in response.content.iter_chunked(iter_length)":
\* a chunk of n bytes is appended to the buffer and PIL is tried on it
ReadChunk(n, outcome) ==
    /\ medium_pc = "reading"
    /\ n >= 1
    /\ n <= Len(stream)
    /\ LET file_header == buffer \o SubSeq(stream, 1, n)
           return == CASE outcome = "image" -> <<TRUE, PilSize>>
                       [] outcome = "unidentified" -> <<TRUE, NoSize>>
                       [] outcome = "other" ->
                            IF is_jpeg /\ MarkerComplete(file_header)
                            THEN <<TRUE, MarkerSize(file_header, Pointer(file_header))>>
                            ELSE IF Len(file_header) >= max_read_length
                            THEN <<TRUE, NoSize>>
                            ELSE <<FALSE, NoSize>>
       IN /\ buffer' = file_header
          /\ stream' = SubSeq(stream, n + 1, Len(stream))
          /\ decoded' = outcome
          /\ medium_pc' = IF return[1] THEN "done" ELSE "reading"
          /\ medium_ret' = return[2]
    /\ UNCHANGED <<is_jpeg, max_read_length>>

\* the stream has ended: the loop is left and the callback returns -1, -1
StreamEnds ==
    /\ medium_pc = "reading"
    /\ stream = <<>>
    /\ medium_pc' = "done"
    /\ medium_ret' = NoSize
    /\ UNCHANGED <<stream, buffer, is_jpeg, max_read_length, decoded>>

InitMedium ==
    /\ medium_pc = "idle"
    /\ stream = <<>>
    /\ buffer = <<>>
    /\ is_jpeg = FALSE
    /\ max_read_length = MaxRead
    /\ decoded = "image"
    /\ medium_ret = NoSize

NextMedium ==
    \/ /\ medium_pc = "idle"
       /\ \E s \in StreamsOf(MaxPieces), jpeg \in BOOLEAN, limit \in {ChunkLen, MaxRead} :
             StartReading(s, jpeg, limit) /\ UNCHANGED besidesMedium
    \/ \E n \in 1..ChunkLen, outcome \in DecodeOutcomes :
          ReadChunk(n, outcome) /\ UNCHANGED besidesMedium
    \/ StreamEnds /\ UNCHANGED besidesMedium

(***************************************************************************)
(* Specifications                                                          *)
(***************************************************************************)
Init == InitPublish /\ InitFetch /\ InitRespond /\ InitProbe /\ InitDispatch /\ InitTitle
        /\ InitMedium

\* the publishing client, in a process whose fetch engine stays idle
PublishAlone == Init /\ ~IPV6_PRIOR /\ v4_only = {} /\ maxsize = 0

SpecPublish == PublishAlone /\ [][NextPublish]_vars

\* the fetch engine, in a process whose publishing client stays idle
FetchAlone == Init /\ pool_size = 1 /\ maxsize = 0

SpecFetch == FetchAlone /\ [][NextFetch]_vars

\* the handling of a response, in a process whose other parts stay idle
RespondAlone == Init /\ pool_size = 1 /\ ~IPV6_PRIOR /\ v4_only = {} /\ maxsize = 0

SpecRespond == RespondAlone /\ [][NextRespond]_vars

\* the cache of get_medium_info, in a process whose other parts stay idle
SpecProbe == RespondAlone /\ [][NextProbe]_vars

\* the dispatcher, in a process whose other parts stay idle
DispatchAlone == Init /\ pool_size = 1 /\ ~IPV6_PRIOR /\ v4_only = {}

SpecDispatch == DispatchAlone /\ [][NextDispatch]_vars

SpecTitle == RespondAlone /\ [][NextTitle]_vars

SpecMedium == RespondAlone /\ [][NextMedium]_vars

Next == NextPublish \/ NextFetch \/ NextRespond \/ NextProbe \/ NextDispatch \/ NextTitle
            \/ NextMedium

Spec == Init /\ [][Next]_vars

(***************************************************************************)
(* Claims about the publishing client                                      *)
(***************************************************************************)
\* the calls whose request is with the remote side, on slot a
InFlight(a) == {c \in Calls : pc[c] = "inflight" /\ account[c] = a}

\* call c is queued on the gate of slot a
QueuedAtGate(c, a) ==
    \E i \in 1..Len(fc_lock[a].waiters) :
        fc_lock[a].waiters[i].kind = "page" /\ fc_lock[a].waiters[i].call = c

\* the slots where a flood_wait of call c that is handled by waiting (not by
\* a new account) has taken the gate, or queues for it, and has not ended
OwnWaits(c) ==
    {a \in Pool : \/ flood[a].mode = "sleep" /\ flood[a].owner = c
                  \/ \E i \in 1..Len(fc_lock[a].waiters) :
                        /\ fc_lock[a].waiters[i].kind = "flood"
                        /\ fc_lock[a].waiters[i].call = c
                        /\ ~Replaces(RetryAfter(fc_lock[a].waiters[i].n))}

\* C1: one publish call invokes the create-page primitive at most 3 times,
\* whatever the remote side answers.
C1_AtMostThreeAttempts == \A c \in Calls : attempts[c] <= RetryLimit

\* C2: when an attempt of a publish call has created the remote page, the
\* call returns the url of the page.
C2_ReturnsUrl ==
    \A c \in Calls : (page_created[c] /\ pc[c] = "done") => result[c] = "url"

\* C3 (as stated): after a flood-wait signal handled by waiting, no attempt of
\* the same publish call is with the remote side before the wait has ended,
\* whichever account the retry is routed to.
C3_RetryAfterWait ==
    \A c \in Calls : pc[c] = "inflight" => OwnWaits(c) = {}

\* C3 (amended): after a flood-wait signal handled by waiting, no attempt of
\* the same publish call is sent on the account that got the signal before
\* the wait has ended.
C3_RetryAfterOwnGate ==
    \A c \in Calls : pc[c] = "inflight" => account[c] \notin OwnWaits(c)

\* the retry of a call is held back at the gate that its own flood_wait holds
C3_Witness ==
    \E c \in Calls : /\ retries[c] > 0
                     /\ pc[c] = "waitGate"
                     /\ flood[account[c]].mode = "sleep"
                     /\ flood[account[c]].owner = c
                     /\ flood[account[c]].held > 0

\* a call goes through the gate of its slot in this step
PassesGate(c) ==
    /\ pc[c] \in {"idle", "start", "inflight", "waitGate"}
    /\ pc'[c] \in {"sleep", "waitLock"}

\* C4: a flood_wait that waits holds the gate of its account for N+1 seconds;
\* a create_page call goes through the gate of its account only when the gate
\* is not held; a call waits at the gate of its own account only.
C4_GateHeld ==
    /\ [](\A a \in Slots :
            flood[a].mode = "sleep" =>
                /\ fc_lock[a].locked
                /\ flood[a].held + flood[a].left = TicksPerSecond * (flood[a].n + 1))
    /\ [](\A c \in Calls :
            pc[c] = "waitGate" =>
                \A a \in Slots : QueuedAtGate(c, a) <=> a = account[c])
    /\ [][\A c \in Calls : PassesGate(c) => ~fc_lock[account'[c]].locked]_vars

\* a call waits at the gate that the flood_wait of another call has held for
\* some time
C4_Witness ==
    \E a \in Slots, c \in Calls :
        /\ flood[a].mode = "sleep"
        /\ flood[a].held > 0
        /\ flood[a].owner # c
        /\ pc[c] = "waitGate"
        /\ account[c] = a

\* C5: flood_wait creates an account if and only if N >= 60, and waits for
\* every N in 0..59.
C5_ReplaceFromSixty ==
    \A a \in Slots :
        /\ flood[a].mode = "create" => flood[a].n >= ReplaceThreshold
        /\ flood[a].mode = "sleep" => flood[a].n < ReplaceThreshold

\* C6: at most one create-page request is in flight per account.
C6_OneInFlight == \A a \in Slots : Cardinality(InFlight(a)) <= 1

\* a request is in flight on a slot while another call queues on its lock
C6_Witness ==
    \E a \in Slots, c, d \in Calls :
        /\ c \in InFlight(a)
        /\ pc[d] = "waitLock"
        /\ account[d] = a

\* C7: a request is sent on an account at least 0.5 s after the previous
\* request of that account was sent, whether that one succeeded or failed.
C7_Pacing ==
    [][\A c \in Calls :
          (pc[c] = "sleep" /\ pc'[c] = "inflight") =>
              since_request[account[c]] >= PacingTicks]_vars

(***************************************************************************)
(* Claims about the fetch engine                                           *)
(***************************************************************************)
\* the first connection attempt of the log was made over IPv6 and raised a
\* retryable transient error or returned 400, 403, 429 or 451
FirstCallsForIPv4(log) ==
    /\ log[1].family = "AF_INET6"
    /\ \/ log[1].outcome.exc \in {"TimeoutError", "ServerConnectionError"}
       \/ log[1].outcome.status \in {400, 403, 429, 451}

\* the second connection attempt of call f has started
SecondAttempt(f) ==
    tries[f] = 2 /\ (fpc[f] \in {"attempt", "backoff"} \/ Len(attempt_log[f]) = 2)

\* C8: a fetch call makes at most 2 connection attempts, and the assertion
\* "Too many tries" never fails.
C8_AtMostTwoTries ==
    \A f \in Fetches : /\ tries[f] <= 2
                       /\ Len(attempt_log[f]) <= 2
                       /\ fresult[f].exc # "AssertionError"

\* a call has ended after two connection attempts, the first one answered
\* with one of the four statuses
C8_Witness ==
    \E f \in Fetches : /\ fpc[f] = "done"
                       /\ tries[f] = 2
                       /\ Len(attempt_log[f]) = 2
                       /\ attempt_log[f][1].outcome.status \in FallbackStatuses

\* C9: a second connection attempt is made if and only if the first one was
\* made over IPv6 and raised a retryable error or returned 400, 403, 429 or
\* 451 (unless the outer deadline ends the call first); the second attempt
\* is made over IPv4 and what it gives is what the call gives; a call whose
\* first attempt was not made over IPv6 makes exactly one attempt.
C9_SecondAttempt ==
    \A f \in Fetches :
        LET log == attempt_log[f] IN
        /\ SecondAttempt(f) => FirstCallsForIPv4(log) /\ socket_family[f] = "AF_INET"
        /\ (log # <<>> /\ FirstCallsForIPv4(log)) =>
               /\ tries[f] = 2
               /\ fpc[f] = "done" => (Len(log) = 2 \/ fresult[f].kind = "deadline")
        /\ (log # <<>> /\ ~FirstCallsForIPv4(log)) =>
               /\ fpc[f] = "done"
               /\ Len(log) = 1
               /\ fresult[f] = Returns(log[1].outcome)
        /\ Len(log) = 2 =>
               /\ fpc[f] = "done"
               /\ log[2].family = "AF_INET"
               /\ fresult[f] = Returns(log[2].outcome)

\* a call has ended with the error of its IPv4 attempt, made after the
\* IPv6 attempt had raised a retryable error
C9_Witness ==
    \E f \in Fetches : /\ fpc[f] = "done"
                       /\ Len(attempt_log[f]) = 2
                       /\ attempt_log[f][1].family = "AF_INET6"
                       /\ attempt_log[f][1].outcome.exc = "ServerConnectionError"
                       /\ attempt_log[f][2].family = "AF_INET"
                       /\ fresult[f].kind = "raise"

\* C10: a fetch of a host reachable over IPv4 only, whose first attempt was
\* made over IPv6 and which the outer deadline has not ended, ends with the
\* 200 response of an IPv4 attempt, whatever way the IPv6 attempt failed.
C10_FallsBackToIPv4 ==
    \A f \in Fetches :
        LET log == attempt_log[f] IN
        (/\ fpc[f] = "done"
         /\ fresult[f].kind # "deadline"
         /\ host[f] \in v4_only
         /\ log # <<>>
         /\ log[1].family = "AF_INET6")
            => /\ Len(log) = 2
               /\ log[2].family = "AF_INET"
               /\ fresult[f] = Returns(Response(200))

\* the connection attempts in progress, of the calls followed and of the others
InProgress == {f \in Fetches : fpc[f] \in {"attempt", "backoff"}}

InProgressOn(h) == {f \in InProgress : host[f] = h}

StatedDeadline == (Timeout * 2 + 5) * (IF IPV6_PRIOR THEN 2 ELSE 1)

\* C12: a call of get is never pending for more than (timeout * 2 + 5) * (2
\* if IPV6_PRIOR else 1) seconds: no time passes for a pending call that has
\* reached this age, and the call the deadline ends raises TimeoutError at
\* exactly this age.
C12_OuterDeadline ==
    /\ [](\A f \in Fetches : entry[f] = "get" =>
              /\ age[f] <= StatedDeadline
              /\ fresult[f].kind = "deadline" =>
                     /\ fpc[f] = "done"
                     /\ age[f] = StatedDeadline
                     /\ fresult[f].exc = "TimeoutError")
    /\ [][\A f \in Fetches :
             (entry[f] = "get" /\ fpc[f] \notin {"idle", "done"} /\ age[f] >= StatedDeadline)
                 => age'[f] = age[f]]_vars

\* the deadline has ended a call during its second connection attempt, the
\* one over IPv4
C12_Witness ==
    \E f \in Fetches : /\ entry[f] = "get"
                       /\ fresult[f].kind = "deadline"
                       /\ tries[f] = 2
                       /\ Len(attempt_log[f]) = 1

\* the deadline get computes for a call that names no timeout, with
\* env.IPV6_PRIOR set: the longest one
LongestDeadline == (DefaultTimeout * 2 + DeadlineExtra) * 2

\* C13: every fetch of feed_get, get_medium_info and get_page_title runs
\* under an outer deadline: a pending call is never older than the longest
\* deadline get computes.
C13_EveryFetchHasDeadline ==
    \A f \in Fetches : fpc[f] \notin {"idle", "done"} => age[f] <= LongestDeadline

(***************************************************************************)
(* Claims about the response of a fetch and about feed_get                 *)
(***************************************************************************)
\* get has given its caller a WebResponse
Responded == rpc \in {"fetched", "done"} /\ web.kind = "response"

\* the body-read policy of the call declines to read the body of the
\* response: the content-type gate does not match, or the size cap is 0
Declined ==
    \/ /\ intended_content_type # <<>>
       /\ web.content_type # <<>>
       /\ ~StartsWith(web.content_type, intended_content_type)
    \/ max_size = <<0>>

\* C14, as stated: the content of a WebResponse is None if and only if the
\* body-read policy declined to read the body.
C14_NoneIffDeclined ==
    Responded => (web.content.none <=> Declined)

\* C14, amended: the content of a WebResponse is None if and only if its
\* status is not 200 or the body-read policy declined to read the body.
C14_NoneIffNot200OrDeclined ==
    Responded => (web.content.none <=> (web.status # 200 \/ Declined))

\* a 200 response whose body was not read because its type is not the
\* intended one
C14_Witness ==
    /\ Responded
    /\ web.status = 200
    /\ web.content.none
    /\ intended_content_type = <<"text/html">>
    /\ web.content_type = <<"image/png">>
    /\ max_size = <<>>

\* C15: feed_get never raises, whatever get gives or raises and whatever the
\* headers and the parser do: it returns a WebFeed.
C15_FeedGetNeverRaises ==
    (caller = "feed_get" /\ rpc = "done") => ret.raised = ""

\* feed_get has returned the error of a Content-Length that is not a number
C15_Witness ==
    /\ caller = "feed_get"
    /\ rpc = "done"
    /\ web.status = 200
    /\ web.content_length = <<"x">>
    /\ ret.error = "internal error"
    /\ ret.raised = ""

\* the response was 304, or 200 with a declared Content-Length of 0
NotModified ==
    /\ web.kind = "response"
    /\ \/ web.status = 304
       \/ web.status = 200 /\ web.content_length = <<"0">>

\* C16: a WebFeed that feed_get returns carries neither a parsed feed nor an
\* error if the response was 304 or 200 with a declared Content-Length of 0,
\* and exactly one of the two in every other case.
C16_FeedOrError ==
    (caller = "feed_get" /\ rpc = "done") =>
        IF NotModified
        THEN ret.rss_d = "none" /\ ret.error = "none"
        ELSE (ret.rss_d # "none") # (ret.error # "none")

\* feed_get has returned a 200 response of declared length 0 as not modified
C16_Witness ==
    /\ caller = "feed_get"
    /\ rpc = "done"
    /\ web.kind = "response"
    /\ web.status = 200
    /\ web.content_length = <<"0">>
    /\ ret = [NoFeed EXCEPT !.status = 304]

(***************************************************************************)
(* Claims about the cache of get_medium_info                               *)
(***************************************************************************)
\* C17: the calls of get_medium_info for an http url that has stayed in the
\* cache since it was first probed start exactly one fetch in total, whether
\* the calls follow each other or overlap.
C17_OneNetworkCall ==
    \A url \in HttpUrls :
        (url \notin evicted /\ \E p \in Probes : probe_pc[p] # "idle" /\ probe_url[p] = url)
            => network_calls[url] = 1

(***************************************************************************)
(* Claims about the dispatcher                                             *)
(***************************************************************************)
\* how often e occurs in seq
Times(seq, e) == Cardinality({i \in 1..Len(seq) : seq[i] = e})

\* the entries put into the present queue, in the order of their put
EnqueuedHere == SubSeq(enqueued, gen_start + 1, Len(enqueued))

\* the step of close_sync that puts the sentinel
GracefulShutdown == Times(queue', Sentinel) > Times(queue, Sentinel)

\* the consumer task is alive and the sentinel waits in its queue
SentinelPending == consumer \in {"ready", "waiting"} /\ Sentinel \in Range(queue)

\* the step of the consumer task that takes the sentinel
TakesSentinel == SentinelPending /\ ~must_cancel /\ consumer' # consumer

\* the consumer has created one task for e, or none if calling func for e
\* raised
SpawnedOnce(e) == Times(spawned, e) = (IF e \in raised THEN 0 ELSE 1)

CancelShutdown == must_cancel' /\ ~must_cancel

\* C19: when shutdown finds entries in the queue it cancels the consumer: the
\* consumer task ends cancelled at its next step, and none of the entries that
\* were in the queue at that moment is ever spawned
C19_CancelShutdown ==
    /\ [](\A e \in abandoned : Times(spawned, e) = 0)
    /\ [](must_cancel => consumer \in {"ready", "cancelled"})
    /\ [][CancelShutdown =>
            /\ ~Empty(queue)
            /\ Range(queue) \ {Sentinel} \subseteq abandoned'
            /\ spawned' = spawned]_vars
    /\ [][(must_cancel /\ consumer = "ready" /\ consumer' # consumer) =>
            consumer' = "cancelled" /\ spawned' = spawned]_vars

\* the consumer has ended cancelled with two entries left in its queue, after
\* it had spawned another
C19_Witness ==
    /\ consumer = "cancelled"
    /\ Cardinality(abandoned) >= 2
    /\ abandoned \subseteq Range(queue)
    /\ spawned # <<>>

\* the place of e in seq
Pos(seq, e) == CHOOSE i \in 1..Len(seq) : seq[i] = e

\* the entries of the present queue that have been spawned, in spawn order
SpawnedHere == SelectSeq(spawned, LAMBDA e : e \in Range(EnqueuedHere))

\* the number of entries of the present queue the consumer has taken
TakenHere == Len(SpawnedHere) + Cardinality(raised \cap Range(EnqueuedHere))

\* C20: no entry is spawned twice, and the entries are spawned in the order in
\* which their put into the queue succeeded: the spawned entries come in the
\* order of enqueued, and those of the present queue are its first entries,
\* less those for which calling func raised
C20_SpawnOrder ==
    /\ \A e \in Entries : Times(spawned, e) <= 1
    /\ Range(spawned) \subseteq Range(enqueued)
    /\ \A i, j \in 1..Len(spawned) :
          i < j => Pos(enqueued, spawned[i]) < Pos(enqueued, spawned[j])
    /\ TakenHere <= Len(EnqueuedHere)
    /\ SpawnedHere = SelectSeq(SubSeq(EnqueuedHere, 1, TakenHere),
                               LAMBDA e : e \notin raised)

\* every entry has been spawned, and one whose put had to wait for room was
\* spawned after an entry of a later call
C20_Witness ==
    /\ Len(spawned) = MaxEntries
    /\ \E i, j \in 1..Len(spawned) : i < j /\ spawned[i] > spawned[j]

\* the step of init_sync
InitStep == inits' = inits + 1

\* C21: at most one consumer task is alive, and it is the one the dispatcher
\* holds; init_sync called while that task has not ended starts no consumer
\* and leaves the queue, its entries and the waiting producers as they are
C21_OneConsumer ==
    /\ [](alive <= 1)
    /\ [](alive = 1 <=> consumer \in {"ready", "waiting"})
    /\ [][(InitStep /\ alive >= 1) =>
            UNCHANGED <<alive, consumer, must_cancel, queue, putters, woken>>]_vars

\* a second init_sync has been called while the consumer was alive with two
\* entries in its queue
C21_Witness ==
    /\ inits = 2
    /\ alive = 1
    /\ gen_start = 0
    /\ Len(queue) >= 2
    /\ consumer = "ready"

\* the step of the consumer in which calling func raises for some item
ItemRaises == raised' # raised

\* the step in which a spawned task ends with an exception
TaskFails == \E e \in Entries : task[e] = "running" /\ task'[e] = "failed"

\* the items at the head of the queue, up to the sentinel
ItemsAhead == SubSeq(queue, 1, FirstSentinel(queue) - 1)

\* C22: a failing work item does not end the consumer.  In the step in which
\* calling func raises, the consumer goes on to the end of the queue, or to
\* the sentinel, and spawns every other item on its way; a task that ends
\* with an exception changes nothing of the dispatcher; a consumer that
\* waits has left nothing in its queue
C22_FailureDoesNotStop ==
    /\ [](consumer = "waiting" => Empty(queue))
    /\ [][ItemRaises =>
            /\ consumer' = (IF Sentinel \in Range(queue) THEN "stopped" ELSE "waiting")
            /\ \A e \in Range(ItemsAhead) : e \in raised' \/ Times(spawned', e) = 1]_vars
    /\ [][TaskFails =>
            UNCHANGED <<queue, consumer, must_cancel, alive, putters, woken,
                        enqueued, spawned, raised, closer>>]_vars

\* calling func has raised for an entry, an entry put after it has been
\* spawned, a task has ended with an exception, and the consumer waits for
\* more
C22_Witness ==
    /\ consumer = "waiting"
    /\ \E e \in raised, f \in Range(spawned) :
          /\ Pos(enqueued, e) < Pos(enqueued, f)
          /\ task[f] = "failed"

\* C29: close() completes normally for its caller: the caller never gets an
\* exception from its await of the consumer task
C29_CloseCompletesNormally == closer # "raised"

(***************************************************************************)
(* Claims about the account pool                                           *)
(***************************************************************************)
\* C23: with at least one account in the pool, the rotation cursor is at every
\* moment at least 0 and less than the number of accounts, whatever get_account
\* calls and flood-control replacements of accounts have happened
C23_CursorInRange == pool_size >= 1 /\ 0 <= curr_id /\ curr_id < pool_size

\* in a pool of two accounts one account has been replaced after a flood wait
\* and the cursor has wrapped around since
C23_Witness ==
    /\ pool_size = 2
    /\ \E a \in Slots : replaced[a]
    /\ got = 1
    /\ curr_id = 0

\* C24: the k-th call of get_account, counted from 0, returns account k mod n
\* of a pool of n accounts, also when concurrent publish calls make the calls:
\* the latest call, the one before the turn-th, returned account
\* (turn - 1) mod n, and the cursor is at the account the next call returns
C24_RoundRobin ==
    /\ curr_id = turn
    /\ got # -1 => got = (turn + pool_size - 1) % pool_size
    /\ got = -1 => turn = 0 /\ \A c \in Calls : pc[c] = "idle"

\* two publish calls are under way at once on a pool of two accounts, one of
\* them after a retry, and the latest get_account returned the first account
\* again
C24_Witness ==
    /\ pool_size = 2
    /\ got = 0
    /\ turn = 1
    /\ \A c \in Calls : pc[c] \notin {"idle", "done"}
    /\ \E c \in Calls : retries[c] >= 1

\* call c sends its create-page request in this step
Sends(c) == pc[c] # "inflight" /\ pc'[c] = "inflight"

\* C30: no create-page request is sent on an account while the flood-control
\* gate of that account is held, under any interleaving of publish calls
C30_NoSendWhileGateHeld ==
    [][\A c \in Calls : Sends(c) => ~fc_lock[account'[c]].locked]_vars

(***************************************************************************)
(* Claims about the permits of a fetch                                     *)
(***************************************************************************)
\* the permits call f holds, as numbers
OverallHeld(f) == IF HoldsOverall(f) THEN 1 ELSE 0
HostHeld(f, h) == IF HoldsHost(f) /\ host[f] = h THEN 1 ELSE 0

\* call f ends in this step: it returns, raises, or is cancelled by the outer
\* deadline
FetchEnds(f) == fpc[f] \notin {"idle", "done"} /\ fpc'[f] = "done"

\* call f goes from its first attempt to its attempt over IPv4 in this step
FallsBack(f) == fpc[f] = "attempt" /\ tries'[f] = tries[f] + 1

\* what other holders do to the semaphores is not part of the step of a call
OthersStay == others' = others

\* C28: a call that has ended holds no permit.  The step in which a call ends
\* gives back exactly the permits the call held, the step from the first
\* attempt to the IPv4 attempt gives back both permits before it asks for
\* them again, and when no call and no other holder is left both semaphores
\* are back at their limits
C28_NoPermitLeak ==
    /\ []((\A f \in Fetches : fpc[f] \in {"idle", "done"}) /\ others = EmptyBag
             => /\ overall_web_semaphore = OverallLimit
                /\ \A h \in Hosts : hostname_semaphore[h] = HostLimit)
    /\ [][\A f \in Fetches : FetchEnds(f) /\ OthersStay =>
             /\ overall_web_semaphore' = overall_web_semaphore + OverallHeld(f)
             /\ \A h \in Hosts :
                   hostname_semaphore'[h] = hostname_semaphore[h] + HostHeld(f, h)]_vars
    /\ [][\A f \in Fetches : FallsBack(f) /\ OthersStay =>
             /\ overall_web_semaphore' + OverallHeld(f)' = overall_web_semaphore + 1
             /\ \A h \in Hosts :
                   hostname_semaphore'[h] + HostHeld(f, h)'
                       = hostname_semaphore[h] + HostHeld(f, h)]_vars

\* a call has been cancelled by the outer deadline after its first attempt had
\* given way to the attempt over IPv4, and both semaphores are at their limits
C28_Witness ==
    /\ \E f \in Fetches : /\ fpc[f] = "done"
                          /\ fresult[f].kind = "deadline"
                          /\ tries[f] = 2
                          /\ Len(attempt_log[f]) = 1
    /\ \A f \in Fetches : fpc[f] \in {"idle", "done"}
    /\ others = EmptyBag
    /\ overall_web_semaphore = OverallLimit
    /\ \A h \in Hosts : hostname_semaphore[h] = HostLimit

(***************************************************************************)
(* Claims about get_page_title                                             *)
(***************************************************************************)
\* the call could not extract a title
NoTitle == title_called /\ title_args.fetched # "title"

\* the first available element of the chain: the filename of the
\* Content-Disposition header if there is one and allow_filename, else the
\* tail of the path if allow_path and the path has one, else the hostname if
\* allow_hostname, else none
Chain(a) ==
    IF a.fetched # "raises" /\ a.disposition = "filename" /\ a.allow_filename
    THEN Filename
    ELSE IF a.allow_path /\ PathTail(a.path) # <<>>
    THEN Text(PathTail(a.path))
    ELSE IF a.allow_hostname
    THEN a.hostname
    ELSE NoText

\* C25: when get_page_title cannot extract a title, it returns the first
\* available element of the chain filename, path tail, hostname, none, for
\* every combination of the three flags and of what the response and the url
\* have
C25_FallbackChain == NoTitle => title_ret = Returned(Chain(title_args))

\* C26: get_page_title never raises, whatever the fetch gives and whatever
\* headers the response has, a Content-Disposition header included
C26_PageTitleNeverRaises == title_called => title_ret.raised = ""

(***************************************************************************)
(* Claims about the chunk loop of the media probe                          *)
(***************************************************************************)
\* a round of the loop on a JPEG-typed stream in which PIL fails with an
\* error other than UnidentifiedImageError
MarkerRound ==
    medium_pc = "reading" /\ buffer' # buffer /\ is_jpeg /\ decoded' = "other"

\* marker occurs in the bytes
Present(bytes, marker) == Find(bytes, marker) # -1

\* marker occurs in the bytes with at least 9 bytes from its start
Complete(bytes, marker) ==
    Present(bytes, marker) /\ Find(bytes, marker) + MarkerSpan <= Len(bytes)

\* the marker that is first, in the order 0xFFC2, 0xFFC1, 0xFFC0, among those
\* that occur in the bytes
FirstPresent(bytes) ==
    IF Present(bytes, SOF2) THEN SOF2 ELSE IF Present(bytes, SOF1) THEN SOF1 ELSE SOF0

\* the callback returns in this step the two fields of the first occurrence
\* of marker: the height from offset 5 and the width from offset 7
ReturnsFieldsOf(marker) ==
    /\ medium_pc' = "done"
    /\ medium_ret'.how = "marker"
    /\ medium_ret'.height = Field(buffer', Find(buffer', marker) + HeightOffset)
    /\ medium_ret'.width = Field(buffer', Find(buffer', marker) + WidthOffset)

\* C27 (as stated): in such a round, if the buffer holds a 0xFFC0 marker with
\* at least 9 bytes from its start, the callback returns the height and the
\* width of that marker without another read
C27_ReturnsSOF0Fields ==
    [][(MarkerRound /\ Complete(buffer', SOF0)) => ReturnsFieldsOf(SOF0)]_vars

\* C27 (amended): in such a round the marker used is the one that is first,
\* in the order 0xFFC2, 0xFFC1, 0xFFC0, among those in the buffer; if at least
\* 9 bytes are buffered from its first occurrence the callback returns its
\* height and width without another read, and if not, no size is taken from
\* any marker in this round
C27_ReturnsFirstPresentFields ==
    [][MarkerRound =>
          IF Complete(buffer', FirstPresent(buffer'))
          THEN ReturnsFieldsOf(FirstPresent(buffer'))
          ELSE medium_ret'.how # "marker"]_vars

\* the callback has returned the fields of a 0xFFC0 marker that does not
\* start the buffer, with no other marker buffered, and they differ
C27_Witness ==
    /\ medium_pc = "done"
    /\ is_jpeg
    /\ decoded = "other"
    /\ medium_ret.how = "marker"
    /\ ~Present(buffer, SOF2)
    /\ ~Present(buffer, SOF1)
    /\ Find(buffer, SOF0) > 0
    /\ medium_ret.height = Field(buffer, Find(buffer, SOF0) + HeightOffset)
    /\ medium_ret.width = Field(buffer, Find(buffer, SOF0) + WidthOffset)
    /\ medium_ret.width # medium_ret.height

====
